---- MODULE Spec2Model ----
(***************************************************************************)
(* A model of the Friday voice assistant: the workflow registry and its    *)
(* dispatch (workflows/base.py), the orchestrator's process_input and      *)
(* activation cycle (core/assistant.py), the language-model provider's     *)
(* conversation history (llm/providers.py) and the wake detectors          *)
(* (utils/wakeword.py).                                                    *)
(*                                                                         *)
(* Text is a sequence of one-character strings, so that str.lower(), the   *)
(* `in` substring test and re.search are computed, not assumed.            *)
(***************************************************************************)
EXTENDS Integers, Sequences, FiniteSets, TLC

\* ------------------------------------------------------------------ text

UpperChars == <<"A","B","C","D","E","F","G","H","I","J","K","L","M",
                "N","O","P","Q","R","S","T","U","V","W","X","Y","Z">>

LowerChars == <<"a","b","c","d","e","f","g","h","i","j","k","l","m",
                "n","o","p","q","r","s","t","u","v","w","x","y","z">>

DigitChars == <<"0","1","2","3","4","5","6","7","8","9">>

\* str.lower() on one character
LowerChar(c) ==
    IF \E i \in 1..Len(UpperChars) : UpperChars[i] = c
    THEN LowerChars[CHOOSE i \in 1..Len(UpperChars) : UpperChars[i] = c]
    ELSE c

\* str.lower()
Lower(s) == [i \in 1..Len(s) |-> LowerChar(s[i])]

IsDigit(c) == \E i \in 1..Len(DigitChars) : DigitChars[i] = c

\* Python's `needle in hay` on strings
Contains(hay, needle) ==
    \E i \in 0..(Len(hay) - Len(needle)) :
        SubSeq(hay, i + 1, i + Len(needle)) = needle

\* The regular expressions the triggers use, as a concatenation of nodes:
\* a group of literal alternatives (a literal is a group of one, an optional
\* group has the empty alternative), `.*`, `\d+`, `\s*`.
Alt(S) == [t |-> "alt", alts |-> S]

AnyChars == [t |-> "any", alts |-> {}]

Digits == [t |-> "digits", alts |-> {}]

Spaces == [t |-> "spaces", alts |-> {}]

\* The offsets at which nodes k.. of pat can end when they start at offset i
RECURSIVE MatchEnds(_, _, _, _)
MatchEnds(pat, k, s, i) ==
    IF k > Len(pat) THEN {i}
    ELSE LET n == pat[k]
             nexts ==
                 CASE n.t = "alt" ->
                        {i + Len(a) : a \in {b \in n.alts :
                            /\ i + Len(b) <= Len(s)
                            /\ SubSeq(s, i + 1, i + Len(b)) = b}}
                   [] n.t = "any" -> i..Len(s)
                   [] n.t = "digits" ->
                        {j \in (i + 1)..Len(s) :
                            \A m \in (i + 1)..j : IsDigit(s[m])}
                   [] n.t = "spaces" ->
                        {j \in i..Len(s) : \A m \in (i + 1)..j : s[m] = " "}
         IN  UNION {MatchEnds(pat, k + 1, s, j) : j \in nexts}

\* re.search(pattern, s): a match starting anywhere, no flags
ReSearch(pat, s) == \E i \in 0..Len(s) : MatchEnds(pat, 1, s, i) # {}

\* -------------------------------------------------------------- triggers

\* DoorbellWorkflow.trigger keywords: door, doorbell, lock, unlock, visitor, entrance
DoorbellKeywords ==
    << <<"d","o","o","r">>,
       <<"d","o","o","r","b","e","l","l">>,
       <<"l","o","c","k">>,
       <<"u","n","l","o","c","k">>,
       <<"v","i","s","i","t","o","r">>,
       <<"e","n","t","r","a","n","c","e">> >>

\* DoorbellWorkflow.trigger patterns:
\*   who.*(at|the) door
\*   (lock|unlock).*(door|entrance)
\*   check.*(door|entrance|visitor)
\*   let .* in
\*   open .* door
DoorbellPatterns ==
    << << Alt({<<"w","h","o">>}), AnyChars, Alt({<<"a","t">>, <<"t","h","e">>}), Alt({<<" ","d","o","o","r">>}) >>,
       << Alt({<<"l","o","c","k">>, <<"u","n","l","o","c","k">>}), AnyChars, Alt({<<"d","o","o","r">>, <<"e","n","t","r","a","n","c","e">>}) >>,
       << Alt({<<"c","h","e","c","k">>}), AnyChars, Alt({<<"d","o","o","r">>, <<"e","n","t","r","a","n","c","e">>, <<"v","i","s","i","t","o","r">>}) >>,
       << Alt({<<"l","e","t"," ">>}), AnyChars, Alt({<<" ","i","n">>}) >>,
       << Alt({<<"o","p","e","n"," ">>}), AnyChars, Alt({<<" ","d","o","o","r">>}) >> >>

\* ThermostatWorkflow.trigger keywords: temperature, thermostat, heat, cool, warm, cold, AC, heating
ThermostatKeywords ==
    << <<"t","e","m","p","e","r","a","t","u","r","e">>,
       <<"t","h","e","r","m","o","s","t","a","t">>,
       <<"h","e","a","t">>,
       <<"c","o","o","l">>,
       <<"w","a","r","m">>,
       <<"c","o","l","d">>,
       <<"A","C">>,
       <<"h","e","a","t","i","n","g">> >>

\* ThermostatWorkflow.trigger patterns:
\*   set.*(temp|temperature|thermostat)
\*   (warm|heat|cool).*up
\*   turn (on|off).*(heat|AC|cooling|heating)
\*   (too|it's).*(hot|cold|warm)
\*   make it (warm|cool|cold)
ThermostatPatterns ==
    << << Alt({<<"s","e","t">>}), AnyChars, Alt({<<"t","e","m","p">>, <<"t","e","m","p","e","r","a","t","u","r","e">>, <<"t","h","e","r","m","o","s","t","a","t">>}) >>,
       << Alt({<<"w","a","r","m">>, <<"h","e","a","t">>, <<"c","o","o","l">>}), AnyChars, Alt({<<"u","p">>}) >>,
       << Alt({<<"t","u","r","n"," ">>}), Alt({<<"o","n">>, <<"o","f","f">>}), AnyChars, Alt({<<"h","e","a","t">>, <<"A","C">>, <<"c","o","o","l","i","n","g">>, <<"h","e","a","t","i","n","g">>}) >>,
       << Alt({<<"t","o","o">>, <<"i","t","'","s">>}), AnyChars, Alt({<<"h","o","t">>, <<"c","o","l","d">>, <<"w","a","r","m">>}) >>,
       << Alt({<<"m","a","k","e"," ","i","t"," ">>}), Alt({<<"w","a","r","m">>, <<"c","o","o","l">>, <<"c","o","l","d">>}) >> >>

\* MediaWorkflow.trigger keywords: TV, television, music, play, pause, volume, speaker, movie
MediaKeywords ==
    << <<"T","V">>,
       <<"t","e","l","e","v","i","s","i","o","n">>,
       <<"m","u","s","i","c">>,
       <<"p","l","a","y">>,
       <<"p","a","u","s","e">>,
       <<"v","o","l","u","m","e">>,
       <<"s","p","e","a","k","e","r">>,
       <<"m","o","v","i","e">> >>

\* MediaWorkflow.trigger patterns:
\*   turn (on|off).*(TV|television)
\*   play .*(music|song|movie)
\*   (pause|stop|resume)
\*   (volume|louder|quieter)
\*   (mute|unmute)
\*   watch .*(netflix|youtube|movie)
MediaPatterns ==
    << << Alt({<<"t","u","r","n"," ">>}), Alt({<<"o","n">>, <<"o","f","f">>}), AnyChars, Alt({<<"T","V">>, <<"t","e","l","e","v","i","s","i","o","n">>}) >>,
       << Alt({<<"p","l","a","y"," ">>}), AnyChars, Alt({<<"m","u","s","i","c">>, <<"s","o","n","g">>, <<"m","o","v","i","e">>}) >>,
       << Alt({<<"p","a","u","s","e">>, <<"s","t","o","p">>, <<"r","e","s","u","m","e">>}) >>,
       << Alt({<<"v","o","l","u","m","e">>, <<"l","o","u","d","e","r">>, <<"q","u","i","e","t","e","r">>}) >>,
       << Alt({<<"m","u","t","e">>, <<"u","n","m","u","t","e">>}) >>,
       << Alt({<<"w","a","t","c","h"," ">>}), AnyChars, Alt({<<"n","e","t","f","l","i","x">>, <<"y","o","u","t","u","b","e">>, <<"m","o","v","i","e">>}) >> >>

\* WeatherWorkflow.trigger keywords: weather, temperature, rain, sunny, forecast, outside
WeatherKeywords ==
    << <<"w","e","a","t","h","e","r">>,
       <<"t","e","m","p","e","r","a","t","u","r","e">>,
       <<"r","a","i","n">>,
       <<"s","u","n","n","y">>,
       <<"f","o","r","e","c","a","s","t">>,
       <<"o","u","t","s","i","d","e">> >>

\* WeatherWorkflow.trigger patterns:
\*   (what|how).*(weather|outside)
\*   is it.*(rain|sunny|cold|hot)
\*   (will|going to) .*(rain|snow)
\*   forecast
\*   should I .*(umbrella|jacket)
WeatherPatterns ==
    << << Alt({<<"w","h","a","t">>, <<"h","o","w">>}), AnyChars, Alt({<<"w","e","a","t","h","e","r">>, <<"o","u","t","s","i","d","e">>}) >>,
       << Alt({<<"i","s"," ","i","t">>}), AnyChars, Alt({<<"r","a","i","n">>, <<"s","u","n","n","y">>, <<"c","o","l","d">>, <<"h","o","t">>}) >>,
       << Alt({<<"w","i","l","l">>, <<"g","o","i","n","g"," ","t","o">>}), Alt({<<" ">>}), AnyChars, Alt({<<"r","a","i","n">>, <<"s","n","o","w">>}) >>,
       << Alt({<<"f","o","r","e","c","a","s","t">>}) >>,
       << Alt({<<"s","h","o","u","l","d"," ","I"," ">>}), AnyChars, Alt({<<"u","m","b","r","e","l","l","a">>, <<"j","a","c","k","e","t">>}) >> >>

\* TimerWorkflow.trigger keywords: timer, alarm, remind, reminder, wake, minutes, hours
TimerKeywords ==
    << <<"t","i","m","e","r">>,
       <<"a","l","a","r","m">>,
       <<"r","e","m","i","n","d">>,
       <<"r","e","m","i","n","d","e","r">>,
       <<"w","a","k","e">>,
       <<"m","i","n","u","t","e","s">>,
       <<"h","o","u","r","s">> >>

\* TimerWorkflow.trigger patterns:
\*   set.*(timer|alarm|reminder)
\*   remind me
\*   in \d+ (minute|hour|second)
\*   wake me
\*   (cancel|stop).*(timer|alarm)
TimerPatterns ==
    << << Alt({<<"s","e","t">>}), AnyChars, Alt({<<"t","i","m","e","r">>, <<"a","l","a","r","m">>, <<"r","e","m","i","n","d","e","r">>}) >>,
       << Alt({<<"r","e","m","i","n","d"," ","m","e">>}) >>,
       << Alt({<<"i","n"," ">>}), Digits, Alt({<<" ">>}), Alt({<<"m","i","n","u","t","e">>, <<"h","o","u","r">>, <<"s","e","c","o","n","d">>}) >>,
       << Alt({<<"w","a","k","e"," ","m","e">>}) >>,
       << Alt({<<"c","a","n","c","e","l">>, <<"s","t","o","p">>}), AnyChars, Alt({<<"t","i","m","e","r">>, <<"a","l","a","r","m">>}) >> >>

\* HomeAssistantLightsWorkflow.trigger keywords
HassLightsKeywords ==
    << <<"l","i","g","h","t">>,
       <<"l","i","g","h","t","s">>,
       <<"l","a","m","p">>,
       <<"i","l","l","u","m","i","n","a","t","e">>,
       <<"b","r","i","g","h","t">>,
       <<"d","i","m">> >>

\* HomeAssistantLightsWorkflow.trigger patterns:
\*   turn (on|off) .*(light|lamp)
\*   (light|lamp).* (on|off)
\*   dim .*(light|lamp)
\*   set .*(light|lamp).* to
HassLightsPatterns ==
    << << Alt({<<"t","u","r","n"," ">>}), Alt({<<"o","n">>, <<"o","f","f">>}), Alt({<<" ">>}), AnyChars, Alt({<<"l","i","g","h","t">>, <<"l","a","m","p">>}) >>,
       << Alt({<<"l","i","g","h","t">>, <<"l","a","m","p">>}), AnyChars, Alt({<<" ">>}), Alt({<<"o","n">>, <<"o","f","f">>}) >>,
       << Alt({<<"d","i","m"," ">>}), AnyChars, Alt({<<"l","i","g","h","t">>, <<"l","a","m","p">>}) >>,
       << Alt({<<"s","e","t"," ">>}), AnyChars, Alt({<<"l","i","g","h","t">>, <<"l","a","m","p">>}), AnyChars, Alt({<<" ","t","o">>}) >> >>

\* HomeAssistantLockWorkflow.trigger keywords
HassLockKeywords ==
    << <<"l","o","c","k">>,
       <<"u","n","l","o","c","k">>,
       <<"d","o","o","r">>,
       <<"s","e","c","u","r","e">> >>

\* HomeAssistantLockWorkflow.trigger patterns:
\*   (lock|unlock).*(door|entrance)
\*   (secure|unsecure)
\*   is .* (locked|unlocked)
HassLockPatterns ==
    << << Alt({<<"l","o","c","k">>, <<"u","n","l","o","c","k">>}), AnyChars, Alt({<<"d","o","o","r">>, <<"e","n","t","r","a","n","c","e">>}) >>,
       << Alt({<<"s","e","c","u","r","e">>, <<"u","n","s","e","c","u","r","e">>}) >>,
       << Alt({<<"i","s"," ">>}), AnyChars, Alt({<<" ">>}), Alt({<<"l","o","c","k","e","d">>, <<"u","n","l","o","c","k","e","d">>}) >> >>

\* HomeAssistantClimateWorkflow.trigger keywords
HassClimateKeywords ==
    << <<"t","e","m","p","e","r","a","t","u","r","e">>,
       <<"t","h","e","r","m","o","s","t","a","t">>,
       <<"h","e","a","t">>,
       <<"c","o","o","l">>,
       <<"A","C">>,
       <<"w","a","r","m">>,
       <<"c","o","l","d">> >>

\* HomeAssistantClimateWorkflow.trigger patterns:
\*   set.*(temp|temperature|thermostat)
\*   (warm|heat|cool).*up
\*   turn (on|off).*(heat|AC)
\*   make it (warm|cool|cold)
HassClimatePatterns ==
    << << Alt({<<"s","e","t">>}), AnyChars, Alt({<<"t","e","m","p">>, <<"t","e","m","p","e","r","a","t","u","r","e">>, <<"t","h","e","r","m","o","s","t","a","t">>}) >>,
       << Alt({<<"w","a","r","m">>, <<"h","e","a","t">>, <<"c","o","o","l">>}), AnyChars, Alt({<<"u","p">>}) >>,
       << Alt({<<"t","u","r","n"," ">>}), Alt({<<"o","n">>, <<"o","f","f">>}), AnyChars, Alt({<<"h","e","a","t">>, <<"A","C">>}) >>,
       << Alt({<<"m","a","k","e"," ","i","t"," ">>}), Alt({<<"w","a","r","m">>, <<"c","o","o","l">>, <<"c","o","l","d">>}) >> >>

\* PhilipsHueLightsWorkflow.trigger keywords
HueKeywords ==
    << <<"l","i","g","h","t">>,
       <<"l","i","g","h","t","s">>,
       <<"l","a","m","p">>,
       <<"i","l","l","u","m","i","n","a","t","e">>,
       <<"b","r","i","g","h","t">>,
       <<"d","i","m">>,
       <<"r","o","m","a","n","t","i","c">>,
       <<"r","o","m","a","n","c","e">>,
       <<"r","e","l","a","x">>,
       <<"c","h","i","l","l">>,
       <<"c","a","l","m">>,
       <<"e","n","e","r","g","i","z","e">>,
       <<"e","n","e","r","g","e","t","i","c">>,
       <<"p","a","r","t","y">>,
       <<"c","e","l","e","b","r","a","t","e">>,
       <<"b","e","d","t","i","m","e">>,
       <<"s","l","e","e","p">>,
       <<"g","o","i","n","g"," ","t","o"," ","b","e","d">>,
       <<"g","o","o","d"," ","n","i","g","h","t">>,
       <<"f","o","c","u","s">>,
       <<"c","o","n","c","e","n","t","r","a","t","e">>,
       <<"s","t","u","d","y">>,
       <<"m","o","v","i","e">>,
       <<"c","i","n","e","m","a">>,
       <<"m","o","v","i","e"," ","n","i","g","h","t">>,
       <<"m","o","r","n","i","n","g">>,
       <<"w","a","k","e"," ","u","p">>,
       <<"g","o","o","d"," ","m","o","r","n","i","n","g">>,
       <<"m","o","o","d">> >>

\* PhilipsHueLightsWorkflow.trigger patterns:
\*   turn (on|off) .*(light|lamp)
\*   (light|lamp).* (on|off)
\*   dim .*(light|lamp)
\*   set .*(light|lamp).* to
\*   (bright|dark)en
\*   (romantic|relax|party|bedtime|focus|movie|morning|energize)\s*(mood|mode|setting|vibe)?
\*   (i am |i'm |feeling |in a ).*(romantic|relaxed|sleepy|party|focused)
\*   (going to |time for ).*(bed|sleep)
\*   (good\s*(night|morning))
HuePatterns ==
    << << Alt({<<"t","u","r","n"," ">>}), Alt({<<"o","n">>, <<"o","f","f">>}), Alt({<<" ">>}), AnyChars, Alt({<<"l","i","g","h","t">>, <<"l","a","m","p">>}) >>,
       << Alt({<<"l","i","g","h","t">>, <<"l","a","m","p">>}), AnyChars, Alt({<<" ">>}), Alt({<<"o","n">>, <<"o","f","f">>}) >>,
       << Alt({<<"d","i","m"," ">>}), AnyChars, Alt({<<"l","i","g","h","t">>, <<"l","a","m","p">>}) >>,
       << Alt({<<"s","e","t"," ">>}), AnyChars, Alt({<<"l","i","g","h","t">>, <<"l","a","m","p">>}), AnyChars, Alt({<<" ","t","o">>}) >>,
       << Alt({<<"b","r","i","g","h","t">>, <<"d","a","r","k">>}), Alt({<<"e","n">>}) >>,
       << Alt({<<"r","o","m","a","n","t","i","c">>, <<"r","e","l","a","x">>, <<"p","a","r","t","y">>, <<"b","e","d","t","i","m","e">>, <<"f","o","c","u","s">>, <<"m","o","v","i","e">>, <<"m","o","r","n","i","n","g">>, <<"e","n","e","r","g","i","z","e">>}), Spaces, Alt({<<"m","o","o","d">>, <<"m","o","d","e">>, <<"s","e","t","t","i","n","g">>, <<"v","i","b","e">>, <<>>}) >>,
       << Alt({<<"i"," ","a","m"," ">>, <<"i","'","m"," ">>, <<"f","e","e","l","i","n","g"," ">>, <<"i","n"," ","a"," ">>}), AnyChars, Alt({<<"r","o","m","a","n","t","i","c">>, <<"r","e","l","a","x","e","d">>, <<"s","l","e","e","p","y">>, <<"p","a","r","t","y">>, <<"f","o","c","u","s","e","d">>}) >>,
       << Alt({<<"g","o","i","n","g"," ","t","o"," ">>, <<"t","i","m","e"," ","f","o","r"," ">>}), AnyChars, Alt({<<"b","e","d">>, <<"s","l","e","e","p">>}) >>,
       << Alt({<<"g","o","o","d">>}), Spaces, Alt({<<"n","i","g","h","t">>, <<"m","o","r","n","i","n","g">>}) >> >>

\* The workflow classes of workflows/base.py
Classes == {"doorbell", "thermostat", "media", "weather", "timer"}

\* A workflow object of one of these classes: its class and whether its
\* controller was passed to the constructor (DoorbellWorkflow(lock_controller=...))
\* or left None.
BaseWorkflows ==
    [cls : {"doorbell", "thermostat", "media"}, configured : BOOLEAN]
        \cup [cls : {"weather", "timer"}, configured : {FALSE}]

\* An application's own subclass of the abstract class Workflow (the
\* extension point of the module): its name and its trigger are the
\* application's, and its execute is bound only by the abstract signature.
CustomWorkflow == [cls |-> "custom", configured |-> TRUE]

CustomKeywords == << <<"j","o","k","e">> >>

CustomPatterns == << >>

\* the workflow classes of workflows/home_assistant.py and workflows/philips_hue.py
ClientClasses == {"hass_lights", "hass_locks", "hass_climate", "hue_lights"}

\* A workflow object of one of these classes: its class and whether it has
\* a client (passed to the constructor, or built from the environment
\* variables) or self.client is None.
ClientWorkflows == [cls : ClientClasses, configured : BOOLEAN]

\* every workflow object of the model
Workflows == BaseWorkflows \cup {CustomWorkflow}

\* Workflow.trigger of a class
Trigger(cls) ==
    CASE cls = "doorbell"   -> [keywords |-> DoorbellKeywords, patterns |-> DoorbellPatterns]
      [] cls = "thermostat" -> [keywords |-> ThermostatKeywords, patterns |-> ThermostatPatterns]
      [] cls = "media"      -> [keywords |-> MediaKeywords, patterns |-> MediaPatterns]
      [] cls = "weather"    -> [keywords |-> WeatherKeywords, patterns |-> WeatherPatterns]
      [] cls = "timer"      -> [keywords |-> TimerKeywords, patterns |-> TimerPatterns]
      [] cls = "custom"     -> [keywords |-> CustomKeywords, patterns |-> CustomPatterns]
      [] cls = "hass_lights"  -> [keywords |-> HassLightsKeywords, patterns |-> HassLightsPatterns]
      [] cls = "hass_locks"   -> [keywords |-> HassLockKeywords, patterns |-> HassLockPatterns]
      [] cls = "hass_climate" -> [keywords |-> HassClimateKeywords, patterns |-> HassClimatePatterns]
      [] cls = "hue_lights"   -> [keywords |-> HueKeywords, patterns |-> HuePatterns]

\* Workflow.name
Name(w) == w.cls

\* Python's None where a workflow is expected
NoWorkflow == [cls |-> "None", configured |-> FALSE]

\* Workflow.matches, mutated: the text is not lower-cased
MatchesCaseSensitive(w, text) ==
    \/ \E k \in 1..Len(Trigger(w.cls).keywords) :
           Contains(text, Trigger(w.cls).keywords[k])
    \/ \E p \in 1..Len(Trigger(w.cls).patterns) :
           ReSearch(Trigger(w.cls).patterns[p], text)

\* Workflow.matches
Matches(w, text) ==
    LET text_lower == Lower(text)
    IN  \/ \E k \in 1..Len(Trigger(w.cls).keywords) :
               Contains(text_lower, Lower(Trigger(w.cls).keywords[k]))
        \/ \E p \in 1..Len(Trigger(w.cls).patterns) :
               ReSearch(Trigger(w.cls).patterns[p], text_lower)

\* ------------------------------------------------------------ utterances

U_Joke == <<"T","e","l","l"," ","m","e"," ","a"," ","j","o","k","e">>

U_LockFront == <<"L","o","c","k"," ","t","h","e"," ","f","r","o","n","t"," ","d","o","o","r">>

U_UnlockBack == <<"U","n","l","o","c","k"," ","t","h","e"," ","b","a","c","k"," ","d","o","o","r">>

U_SetTemp == <<"S","e","t"," ","t","h","e"," ","t","e","m","p","e","r","a","t","u","r","e"," ","t","o"," ","7","2"," ","d","e","g","r","e","e","s">>

U_TurnOnAC == <<"T","u","r","n"," ","o","n"," ","t","h","e"," ","A","C">>

U_Timer == <<"S","e","t"," ","a"," ","t","i","m","e","r"," ","f","o","r"," ","1","0"," ","m","i","n","u","t","e","s">>

U_WeatherAlarm == <<"P","l","a","y"," ","t","h","e"," ","w","e","a","t","h","e","r"," ","a","l","a","r","m">>

U_Umbrella == <<"S","h","o","u","l","d"," ","I"," ","b","r","i","n","g"," ","a","n"," ","u","m","b","r","e","l","l","a","?">>

\* The utterances the model draws its inputs from
Utterances ==
    {U_Joke, U_LockFront, U_UnlockBack, U_SetTemp, U_TurnOnAC, U_Timer,
     U_WeatherAlarm, U_Umbrella}

U_LockMovieParty == <<"L","o","c","k"," ","t","h","e"," ","d","o","o","r"," ","f","o","r"," ","t","h","e"," ","m","o","v","i","e"," ","p","a","r","t","y">>

U_TurnOnLiving == <<"T","u","r","n"," ","o","n"," ","t","h","e"," ","l","i","v","i","n","g"," ","r","o","o","m"," ","l","i","g","h","t","s">>

U_DimBedroom == <<"D","i","m"," ","t","h","e"," ","b","e","d","r","o","o","m"," ","l","i","g","h","t","s"," ","t","o"," ","5","0","%">>

U_TurnOffAll == <<"T","u","r","n"," ","o","f","f"," ","a","l","l"," ","t","h","e"," ","l","i","g","h","t","s">>

U_Romantic == <<"I"," ","a","m"," ","i","n"," ","a"," ","r","o","m","a","n","t","i","c"," ","m","o","o","d">>

U_GarageLocked == <<"I","s"," ","t","h","e"," ","g","a","r","a","g","e"," ","l","o","c","k","e","d","?">>

\* the utterances the skills are executed on
SkillUtterances ==
    {U_TurnOnLiving, U_DimBedroom, U_TurnOffAll, U_Romantic, U_GarageLocked,
     U_LockFront, U_UnlockBack, U_SetTemp, U_TurnOnAC, U_Timer}

\* the other example phrases of the four default workflows' triggers

U_WhoAtDoor == <<"W","h","o","'","s"," ","a","t"," ","t","h","e"," ","d","o","o","r","?">>

U_CheckCamera == <<"C","h","e","c","k"," ","t","h","e"," ","d","o","o","r","b","e","l","l"," ","c","a","m","e","r","a">>

U_LetThemIn == <<"L","e","t"," ","t","h","e","m"," ","i","n">>

U_TooCold == <<"I","t","'","s"," ","t","o","o"," ","c","o","l","d"," ","i","n"," ","h","e","r","e">>

U_WarmItUp == <<"W","a","r","m"," ","i","t"," ","u","p"," ","a"," ","b","i","t">>

U_WeatherLike == <<"W","h","a","t","'","s"," ","t","h","e"," ","w","e","a","t","h","e","r"," ","l","i","k","e","?">>

U_RainToday == <<"I","s"," ","i","t"," ","g","o","i","n","g"," ","t","o"," ","r","a","i","n"," ","t","o","d","a","y","?">>

U_Forecast == <<"W","h","a","t","'","s"," ","t","h","e"," ","f","o","r","e","c","a","s","t"," ","f","o","r"," ","t","o","m","o","r","r","o","w","?">>

U_RemindMe == <<"R","e","m","i","n","d"," ","m","e"," ","i","n"," ","a","n"," ","h","o","u","r">>

U_WakeMeUp == <<"W","a","k","e"," ","m","e"," ","u","p"," ","a","t"," ","7","a","m">>

U_CancelTimer == <<"C","a","n","c","e","l"," ","t","h","e"," ","t","i","m","e","r">>

\* WorkflowTrigger.examples of the workflows create_default_workflow_manager
\* registers, in the order listed, character by character
ExamplePhrases(cls) ==
    CASE cls = "doorbell"   -> <<U_WhoAtDoor, U_LockFront, U_UnlockBack, U_CheckCamera, U_LetThemIn>>
      [] cls = "thermostat" -> <<U_SetTemp, U_TooCold, U_TurnOnAC, U_WarmItUp>>
      [] cls = "weather"    -> <<U_WeatherLike, U_RainToday, U_Forecast, U_Umbrella>>
      [] cls = "timer"      -> <<U_Timer, U_RemindMe, U_WakeMeUp, U_CancelTimer>>
      [] OTHER              -> <<>>

\* every example phrase of a default workflow
ExampleUtterances ==
    UNION {{ExamplePhrases(cls)[i] : i \in 1..Len(ExamplePhrases(cls))} :
           cls \in {"doorbell", "thermostat", "weather", "timer"}}

\* matches() of every workflow on every utterance, evaluated once: the
\* (workflow, utterance) pairs on which it is true
MatchTable ==
    UNION {{<<w, u>> : u \in {v \in Utterances \cup SkillUtterances \cup ExampleUtterances : Matches(w, v)}} :
           w \in Workflows \cup ClientWorkflows}

\* workflow.matches(text), looked up
MatchesText(w, text) == <<w, text>> \in MatchTable

\* --------------------------------------------------------------- bounds

\* LLMConfig.max_history's default
DefaultMaxHistory == 10

\* how many utterances a run resolves
MaxInteractions == 2

\* how many times the wake word is said, or Enter pressed, in a run
MaxWakes == 2

\* how many get_all_context_for_llm calls a run makes
MaxContextCalls == 2

\* how many phrases of the vocabulary an utterance given to the extractor has
MaxPhrases == 2

\* how many execute calls the workflow of one Hue client gets
MaxExecutes == 3

\* ---------------------------------------------------- entity extraction

\* the phrases of the action rules, in the order the code tests them
OnPhrases ==
    << <<"t","u","r","n"," ","o","n">>, <<"s","w","i","t","c","h"," ","o","n">>,
       <<"e","n","a","b","l","e">> >>

OffPhrases ==
    << <<"t","u","r","n"," ","o","f","f">>, <<"s","w","i","t","c","h"," ","o","f","f">>,
       <<"d","i","s","a","b","l","e">> >>

W_dim == <<"d","i","m">>

W_lock == <<"l","o","c","k">>

W_unlock == <<"u","n","l","o","c","k">>

W_check == <<"c","h","e","c","k">>

W_who == <<"w","h","o">>

W_front == <<"f","r","o","n","t">>

\* rooms, in list order
Rooms ==
    << <<"l","i","v","i","n","g"," ","r","o","o","m">>, <<"b","e","d","r","o","o","m">>,
       <<"k","i","t","c","h","e","n">>, <<"b","a","t","h","r","o","o","m">>,
       <<"o","f","f","i","c","e">>, <<"g","a","r","a","g","e">>,
       <<"b","a","s","e","m","e","n","t">>, <<"a","t","t","i","c">> >>

\* doors, in list order
Doors ==
    << <<"f","r","o","n","t">>, <<"b","a","c","k">>, <<"s","i","d","e">>,
       <<"g","a","r","a","g","e">> >>

\* mood_keywords: the moods in dict order, each with its keywords
MoodNames == <<"romantic", "relax", "energize", "party", "bedtime", "focus", "movie", "morning">>

MoodKeywords ==
    << \* romantic
       << <<"r","o","m","a","n","t","i","c">>, <<"r","o","m","a","n","c","e">>,
          <<"d","a","t","e"," ","n","i","g","h","t">>, <<"i","n","t","i","m","a","t","e">>,
          <<"c","a","n","d","l","e","l","i","g","h","t">> >>,
       \* relax
       << <<"r","e","l","a","x">>, <<"r","e","l","a","x","i","n","g">>, <<"c","h","i","l","l">>,
          <<"c","a","l","m">>, <<"u","n","w","i","n","d">>, <<"w","i","n","d"," ","d","o","w","n">>,
          <<"p","e","a","c","e","f","u","l">> >>,
       \* energize
       << <<"e","n","e","r","g","i","z","e">>, <<"e","n","e","r","g","e","t","i","c">>,
          <<"e","n","e","r","g","y">>, <<"p","u","m","p"," ","u","p">>,
          <<"m","o","t","i","v","a","t","e","d">>, <<"p","r","o","d","u","c","t","i","v","e">> >>,
       \* party
       << <<"p","a","r","t","y">>, <<"d","a","n","c","e">>, <<"c","e","l","e","b","r","a","t","e">>,
          <<"c","e","l","e","b","r","a","t","i","o","n">>, <<"f","i","e","s","t","a">> >>,
       \* bedtime
       << <<"b","e","d">>, <<"s","l","e","e","p">>, <<"b","e","d","t","i","m","e">>,
          <<"g","o","o","d"," ","n","i","g","h","t">>, <<"g","o","o","d","n","i","g","h","t">>,
          <<"g","o","i","n","g"," ","t","o"," ","b","e","d">>, <<"s","l","e","e","p","y">>,
          <<"n","i","g","h","t"," ","n","i","g","h","t">> >>,
       \* focus
       << <<"f","o","c","u","s">>, <<"c","o","n","c","e","n","t","r","a","t","e">>,
          <<"s","t","u","d","y">>, <<"r","e","a","d","i","n","g">>,
          <<"w","o","r","k"," ","m","o","d","e">> >>,
       \* movie
       << <<"m","o","v","i","e">>, <<"c","i","n","e","m","a">>, <<"f","i","l","m">>,
          <<"m","o","v","i","e"," ","n","i","g","h","t">>, <<"w","a","t","c","h","i","n","g">> >>,
       \* morning
       << <<"m","o","r","n","i","n","g">>, <<"w","a","k","e"," ","u","p">>,
          <<"s","u","n","r","i","s","e">>, <<"g","o","o","d"," ","m","o","r","n","i","n","g">> >> >>
\* any(p in s for p in phrases)
AnyIn(phrases, s) == \E i \in 1..Len(phrases) : Contains(s, phrases[i])

\* the entry of list kept, mutated: the loop has no break, the last one stays
LastIn(list, s) ==
    {list[i] : i \in {j \in 1..Len(list) :
        /\ Contains(s, list[j])
        /\ \A k \in (j + 1)..Len(list) : ~Contains(s, list[k])}}

\* the first entry of list that occurs in s, as a set: empty when none does
FirstIn(list, s) ==
    {list[i] : i \in {j \in 1..Len(list) :
        /\ Contains(s, list[j])
        /\ \A k \in 1..(j - 1) : ~Contains(s, list[k])}}

\* the mood kept, mutated: the loop has no break, the last one stays
LastMood(s) ==
    {MoodNames[i] : i \in {j \in 1..Len(MoodNames) :
        /\ AnyIn(MoodKeywords[j], s)
        /\ \A k \in (j + 1)..Len(MoodNames) : ~AnyIn(MoodKeywords[k], s)}}

\* the first mood, in dict order, one of whose keywords occurs in s
FirstMood(s) ==
    {MoodNames[i] : i \in {j \in 1..Len(MoodNames) :
        /\ AnyIn(MoodKeywords[j], s)
        /\ \A k \in 1..(j - 1) : ~AnyIn(MoodKeywords[k], s)}}

\* the action rules, mutated: the lock rule does not look for "unlock"
BasicActionLockFirst(s) ==
    IF AnyIn(OnPhrases, s) THEN {"on"}
    ELSE IF AnyIn(OffPhrases, s) THEN {"off"}
    ELSE IF Contains(s, W_dim) THEN {"dim"}
    ELSE IF Contains(s, W_lock) THEN {"lock"}
    ELSE IF Contains(s, W_unlock) THEN {"unlock"}
    ELSE IF Contains(s, W_check) \/ Contains(s, W_who) THEN {"check"}
    ELSE {}

\* the action rules (the if/elif chain), as a set: empty when no rule applies
BasicAction(s) ==
    IF AnyIn(OnPhrases, s) THEN {"on"}
    ELSE IF AnyIn(OffPhrases, s) THEN {"off"}
    ELSE IF Contains(s, W_dim) THEN {"dim"}
    ELSE IF Contains(s, W_lock) /\ ~Contains(s, W_unlock) THEN {"lock"}
    ELSE IF Contains(s, W_unlock) THEN {"unlock"}
    ELSE IF Contains(s, W_check) \/ Contains(s, W_who) THEN {"check"}
    ELSE {}

\* the value of a decimal digit
DigitValue(c) == (CHOOSE i \in 1..Len(DigitChars) : DigitChars[i] = c) - 1

\* int() of a run of digits
RECURSIVE ParseInt(_)
ParseInt(ds) ==
    IF ds = <<>> THEN 0
    ELSE 10 * ParseInt(SubSeq(ds, 1, Len(ds) - 1)) + DigitValue(ds[Len(ds)])

\* re.findall(r'\d+', text)[:1]: the first maximal run of digits, as a set
FirstDigitRun(text) ==
    LET starts == {i \in 1..Len(text) : IsDigit(text[i])}
    IN  IF starts = {} THEN {}
        ELSE LET a == CHOOSE i \in starts : \A j \in starts : i <= j
                 b == CHOOSE j \in a..Len(text) :
                          /\ \A m \in a..j : IsDigit(text[m])
                          /\ (j = Len(text) \/ ~IsDigit(text[j + 1]))
             IN  {SubSeq(text, a, b)}

\* str() of a non-negative int
RECURSIVE IntToChars(_)
IntToChars(n) ==
    IF n < 10 THEN <<DigitChars[n + 1]>>
    ELSE Append(IntToChars(n \div 10), DigitChars[(n % 10) + 1])

\* the one element of a singleton set
TheOne(S) == CHOOSE x \in S : TRUE

\* the keys the number is stored under, mutated: both
NumberKeysBoth(num) == {"brightness", "temperature"}

\* the keys the number is stored under, mutated: 100 is a temperature
NumberKeysBelow(num) == IF num < 100 THEN {"brightness"} ELSE {"temperature"}

\* lines 217-220: the key the number is stored under
NumberKeys(num) == IF num <= 100 THEN {"brightness"} ELSE {"temperature"}

\* VoiceAssistant._extract_entities: the dict, as a function on its keys
ExtractEntities(text) ==
    LET text_lower == Lower(text)
        action == BasicAction(text_lower)
        room == FirstIn(Rooms, text_lower)
        door == FirstIn(Doors, text_lower)
        mood == FirstMood(text_lower)
        numbers == FirstDigitRun(text)
        num == IF numbers = {} THEN 0 ELSE ParseInt(TheOne(numbers))
        keys == (IF action # {} \/ mood # {} THEN {"action"} ELSE {})
                \cup (IF room # {} THEN {"room"} ELSE {})
                \cup (IF door # {} THEN {"door"} ELSE {})
                \cup (IF mood # {} THEN {"mood"} ELSE {})
                \cup (IF numbers # {} THEN NumberKeys(num) ELSE {})
    IN  [k \in keys |->
            CASE k = "action" -> IF mood # {} THEN "mood" ELSE TheOne(action)
              [] k = "room" -> TheOne(room)
              [] k = "door" -> TheOne(door)
              [] k = "mood" -> TheOne(mood)
              [] k = "brightness" -> num
              [] k = "temperature" -> num]

\* entities.get(k, default)
Get(entities, k, default) == IF k \in DOMAIN entities THEN entities[k] ELSE default

\* -------------------------------------------------------------- registry

VARIABLES
    workflows,             \* WorkflowManager.workflows: the dict, as its (key, value) items in order
    last_op,               \* the last WorkflowManager call made: its name and argument, and how far
                           \* the calls have got in register(X), unregister(X.name), register(Y)
    conversation_history,  \* LLMProvider.conversation_history
    max_history,           \* LLMConfig.max_history
    call,                  \* the last process_input call: its input, what it did, its outcome
    interactions,          \* the number of utterances resolved, or requests made, so far
    state,                 \* VoiceAssistant.state
    running,               \* VoiceAssistant._running
    main_pc,               \* where the main thread is: before run, in speak, in run's loop, in stop, after stop
    detector,              \* VoiceAssistant._wake_detector: the kind of detector, or none
    det_running,           \* the detector's _running
    det_pc,                \* where the detector thread is in _detection_loop
    det_cycle,             \* the cycle the detector's callback is running
    started,               \* the number of activation cycles started
    pending,               \* wake words said, or lines typed, and not yet read
    wakes,                 \* the number of wake triggers so far
    cycles,                \* each activation cycle: where handle_activation is, the text heard, what to say
    applied,               \* the last call of a function that changes nothing: its arguments and result
    skill,                 \* an execute call of a workflow: the workflow, its arguments, its client, what it did
    build,                 \* main.create_workflow_manager: the environment variables set, and whether it has run
    hue                    \* a PhilipsHueClient over the execute calls of its workflow, and its bridge

regVars == <<workflows, last_op>>

llmVars == <<conversation_history, max_history>>

chatVars == <<call, interactions>>

detVars == <<detector, det_running, det_pc, det_cycle, started, pending, wakes>>

mainVars == <<running, main_pc>>

envVars == <<build, hue>>

pureVars == <<applied, skill, build, hue>>

voiceVars == <<state, running, main_pc, detector, det_running, det_pc, det_cycle,
               started, pending, wakes, cycles>>

vars == <<workflows, last_op, conversation_history, max_history, call, interactions,
          state, running, main_pc, detector, det_running, det_pc, det_cycle,
          started, pending, wakes, cycles, applied, skill, build, hue>>

\* dict keys, in iteration order
Keys(d) == [i \in 1..Len(d) |-> d[i].key]

\* dict values(), in iteration order
Values(d) == [i \in 1..Len(d) |-> d[i].value]

\* `k in d`
HasKey(d, k) == \E i \in 1..Len(d) : d[i].key = k

\* the position of key k in the iteration order of d (0: absent)
IndexOf(d, k) == IF HasKey(d, k) THEN CHOOSE i \in 1..Len(d) : d[i].key = k ELSE 0

\* d[k] = v, mutated: an existing key is moved to the end
DictSetMoveToEnd(d, k, v) ==
    Append(SelectSeq(d, LAMBDA e : e.key # k), [key |-> k, value |-> v])

\* d[k] = v on an insertion-ordered dict
DictSet(d, k, v) ==
    IF HasKey(d, k)
    THEN [d EXCEPT ![IndexOf(d, k)] = [key |-> k, value |-> v]]
    ELSE Append(d, [key |-> k, value |-> v])

\* del d[k], mutated: the last item is dropped instead
DictDelLast(d, k) == SubSeq(d, 1, Len(d) - 1)

\* del d[k]
DictDel(d, k) == SelectSeq(d, LAMBDA e : e.key # k)

\* d.get(k)
DictGet(d, k) == IF HasKey(d, k) THEN d[IndexOf(d, k)].value ELSE NoWorkflow

\* the loop of find_matching_workflow, mutated: the first match is kept
RECURSIVE FindLoopFirst(_, _, _, _)
FindLoopFirst(vals, i, text, matched) ==
    IF i > Len(vals) THEN matched
    ELSE IF MatchesText(vals[i], text) THEN vals[i]
    ELSE FindLoopFirst(vals, i + 1, text, matched)

\* the loop of find_matching_workflow: every match overwrites `matched`
RECURSIVE FindLoop(_, _, _, _)
FindLoop(vals, i, text, matched) ==
    IF i > Len(vals) THEN matched
    ELSE FindLoop(vals, i + 1, text,
                  IF MatchesText(vals[i], text) THEN vals[i] ELSE matched)

\* WorkflowManager.find_matching_workflow, mutated: first match wins
FindFirstMatchingWorkflow(d, text) == FindLoopFirst(Values(d), 1, text, NoWorkflow)

\* WorkflowManager.find_matching_workflow
FindMatchingWorkflow(d, text) == FindLoop(Values(d), 1, text, NoWorkflow)

\* The names unregister is called with: the base classes' names and
\* "lights", which main.create_workflow_manager unregisters although no
\* workflow of that name is ever registered.
UnregisterNames == Classes \cup {"lights"}

\* WorkflowManager.register
Register(w) ==
    /\ workflows' = DictSet(workflows, Name(w), w)
    /\ last_op' = [op |-> "register", name |-> Name(w), arg |-> w,
                   present |-> HasKey(workflows, Name(w)), raised |-> FALSE,
                   seq |-> IF last_op.seq = 2 /\ Name(w) # last_op.x THEN 3 ELSE 1,
                   x |-> IF last_op.seq = 2 /\ Name(w) # last_op.x
                         THEN last_op.x ELSE Name(w)]
    /\ UNCHANGED <<llmVars, chatVars, voiceVars, pureVars>>

\* unregister's test `name in self.workflows`, mutated: the test is dropped
UnregisterGuardAlways(d, name) == TRUE

\* unregister's test `name in self.workflows`
UnregisterGuard(d, name) == HasKey(d, name)

\* WorkflowManager.unregister; `del` of an absent key raises KeyError
Unregister(name) ==
    LET del == UnregisterGuard(workflows, name)
    IN  /\ workflows' = IF del /\ HasKey(workflows, name)
                        THEN DictDel(workflows, name)
                        ELSE workflows
        /\ last_op' = [op |-> "unregister", name |-> name, arg |-> NoWorkflow,
                       present |-> HasKey(workflows, name),
                       raised |-> (del /\ ~HasKey(workflows, name)),
                       seq |-> IF last_op.seq = 1 /\ name = last_op.x THEN 2 ELSE 0,
                       x |-> IF last_op.seq = 1 /\ name = last_op.x THEN name ELSE ""]
        /\ UNCHANGED <<llmVars, chatVars, voiceVars, pureVars>>

\* Workflow.description of a class
Description(cls) ==
    CASE cls = "doorbell" -> "Check doorbell camera, see who's at the door, lock/unlock doors"
      [] cls = "thermostat" -> "Control thermostat - set temperature, change modes"
      [] cls = "media" -> "Control TV, speakers, music playback"
      [] cls = "weather" -> "Get current weather and forecasts"
      [] cls = "timer" -> "Set timers, alarms, and reminders"
      [] cls = "custom" -> "Tell jokes"

\* Workflow.trigger.examples of a class
Examples(cls) ==
    CASE cls = "doorbell" ->
            <<"Who's at the door?",
              "Lock the front door",
              "Unlock the back door",
              "Check the doorbell camera",
              "Let them in">>
      [] cls = "thermostat" ->
            <<"Set the temperature to 72 degrees",
              "It's too cold in here",
              "Turn on the AC",
              "Warm it up a bit">>
      [] cls = "media" ->
            <<"Turn on the TV",
              "Play some jazz music",
              "Pause the movie",
              "Turn up the volume",
              "Put on Netflix">>
      [] cls = "weather" ->
            <<"What's the weather like?",
              "Is it going to rain today?",
              "What's the forecast for tomorrow?",
              "Should I bring an umbrella?">>
      [] cls = "timer" ->
            <<"Set a timer for 10 minutes",
              "Remind me in an hour",
              "Wake me up at 7am",
              "Cancel the timer">>
      [] cls = "custom" -> <<"Tell me a joke">>

\* "\n".join(parts), the parts and the result being texts in pieces
RECURSIVE JoinLines(_)
JoinLines(parts) ==
    IF parts = <<>> THEN <<>>
    ELSE IF Len(parts) = 1 THEN parts[1]
    ELSE parts[1] \o <<"\n">> \o JoinLines(Tail(parts))

\* Workflow.get_context_for_llm: the text, in pieces (each literal of the
\* f-string and each interpolated value is one piece)
GetContextForLLM(w) ==
    LET examples_text ==
            JoinLines([i \in 1..Len(Examples(w.cls)) |-> <<"  - ", Examples(w.cls)[i]>>])
    IN  <<"\nWorkflow: ", Name(w), "\nDescription: ", Description(w.cls),
          "\nExample commands:\n">> \o examples_text \o <<"\n">>

\* the sequence s in reverse
Reversed(s) == [i \in 1..Len(s) |-> s[Len(s) + 1 - i]]

\* get_all_context_for_llm, mutated: the workflows are taken newest first
GetAllContextNewestFirst(d) ==
    IF d = <<>>
    THEN <<"No special capabilities are currently configured.">>
    ELSE JoinLines([i \in 1..Len(d) |-> GetContextForLLM(Reversed(Values(d))[i])])

\* WorkflowManager.get_all_context_for_llm
GetAllContextForLLM(d) ==
    IF d = <<>>
    THEN <<"No special capabilities are currently configured.">>
    ELSE LET contexts == [i \in 1..Len(d) |-> GetContextForLLM(Values(d)[i])]
         IN  JoinLines(contexts)

\* ------------------------------------------------------ workflow results

\* WorkflowStatus
Statuses == {"SUCCESS", "FAILURE", "PARTIAL", "PENDING"}

\* What a call of execute yields: a WorkflowResult (its status, message and
\* error; None and "" are both the empty text), or an exception.  Messages
\* are texts built by concatenation: a literal of the source is one element,
\* an interpolated utterance or entity contributes its characters.
Result(status, message, error) ==
    [raised |-> FALSE, status |-> status, message |-> message, error |-> error]

Raised == [raised |-> TRUE, status |-> "NONE", message |-> <<>>, error |-> <<>>]

\* no execute call was made
NoResult == [raised |-> FALSE, status |-> "NONE", message |-> <<>>, error |-> <<>>]

\* DoorbellWorkflow.execute
DoorbellExecute(w, entities) ==
    LET action == Get(entities, "action", "check")
        door == Get(entities, "door", W_front)
    IN  IF ~w.configured
        THEN {Result("FAILURE",
                     <<"The door systems are not yet configured, sir. I suggest we remedy that.">>,
                     <<"No door controller configured">>)}
        ELSE {Result("SUCCESS",
                     CASE action = "check" -> <<"I'm checking the door camera now, sir.">>
                       [] action = "lock" ->
                            <<"The ">> \o door \o <<" door is now secured, sir.">>
                       [] action = "unlock" ->
                            <<"I've unlocked the ">> \o door
                                \o <<" door, sir. Do try not to let in anyone unsavory.">>
                       [] OTHER -> <<"Door action completed, sir.">>,
                     <<>>)}

\* ThermostatWorkflow.execute (nothing sets entities["mode"])
ThermostatExecute(w, entities) ==
    IF ~w.configured
    THEN {Result("FAILURE",
                 <<"The climate control system awaits configuration, sir.">>,
                 <<"No thermostat controller configured">>)}
    ELSE {Result("SUCCESS",
                 IF "temperature" \in DOMAIN entities /\ entities["temperature"] # 0
                 THEN <<"I've set the temperature to ">>
                          \o IntToChars(entities["temperature"])
                          \o <<" degrees, sir. Comfort should arrive shortly.">>
                 ELSE <<"I've adjusted the temperature to something more agreeable, sir.">>,
                 <<>>)}

\* MediaWorkflow.execute (nothing sets entities["device"] or entities["content"])
MediaExecute(w, entities) ==
    LET action == Get(entities, "action", "toggle")
    IN  IF ~w.configured
        THEN {Result("FAILURE",
                     <<"The entertainment systems require configuration, sir.">>,
                     <<"No media controller configured">>)}
        ELSE {Result("SUCCESS",
                     CASE action = "on" -> <<"Powering on the ", "TV", ", sir.">>
                       [] action = "off" ->
                            <<"The ", "TV", " is now off, sir. Perhaps a book instead?">>
                       [] action = "pause" -> <<"Paused, sir.">>
                       [] action = "volume_up" -> <<"Increasing volume, sir.">>
                       [] action = "volume_down" -> <<"Lowering volume, sir.">>
                       [] OTHER -> <<"Media command executed, sir.">>,
                     <<>>)}

\* WeatherWorkflow.execute
WeatherExecute(w, entities) ==
    {Result("SUCCESS",
            <<"I would check the weather, sir, but I haven't been connected to a weather service yet.">>,
            <<>>)}

\* TimerWorkflow.execute (nothing sets entities["duration"]: it formats as None)
TimerExecute(w, entities) ==
    LET action == Get(entities, "action", "set")
    IN  {Result("SUCCESS",
                CASE action = "set" ->
                       <<"I've set a ", "None", " timer, sir. I shall alert you when it expires.">>
                  [] action = "cancel" -> <<"Timer cancelled, sir.">>
                  [] OTHER -> <<"Timer action completed, sir.">>,
                <<>>)}

\* execute of an application's own workflow: any WorkflowResult, or an exception
CustomExecute(w, entities) ==
    {Result(s, <<"custom message">>, e) :
        s \in Statuses, e \in {<<>>, <<"custom error">>}} \cup {Raised}

\* Workflow.execute, dispatched on the class
Execute(w, intent, entities) ==
    CASE w.cls = "doorbell"   -> DoorbellExecute(w, entities)
      [] w.cls = "thermostat" -> ThermostatExecute(w, entities)
      [] w.cls = "media"      -> MediaExecute(w, entities)
      [] w.cls = "weather"    -> WeatherExecute(w, entities)
      [] w.cls = "timer"      -> TimerExecute(w, entities)
      [] w.cls = "custom"     -> CustomExecute(w, entities)

\* ------------------------------------------------- skills with a client

\* every workflow object of the repository
SkillWorkflows == BaseWorkflows \cup ClientWorkflows

\* the classes whose objects hold a controller or a client
ControllerClasses == {"doorbell", "thermostat", "media"} \cup ClientClasses

W_living_room == <<"l","i","v","i","n","g"," ","r","o","o","m">>

W_bedroom == <<"b","e","d","r","o","o","m">>

W_all == <<"a","l","l">>

\* str(e) of the exceptions a request to the service raises
ExceptionTexts ==
    {<<"Cannot connect to host">>, <<"Hue API error: ", "unknown error">>}

\* the methods of HomeAssistantClient and PhilipsHueClient that execute awaits
ClientMethods ==
    {"call_service", "get_state", "discover", "set_group_action", "set_light_state"}

\* What the service of a client does during one execute: the method that
\* raises when it is awaited ("none": every request is answered) and the
\* text of its exception; of a Hue client, _discovered, whether
\* _all_lights_group_id is set, and the keys of _group_names and
\* _light_names (as they are once discover has returned); and whether
\* the state Home Assistant answers with for a lock is "locked".
Clients ==
    [fails : ClientMethods \cup {"none"}, text : ExceptionTexts,
     discovered : BOOLEAN, all_group : BOOLEAN,
     groups : {{}, {W_living_room}}, lights : {{}, {W_bedroom}}, locked : BOOLEAN]

\* the clients of the model that differ for a workflow of a class
ClientsOf(cls) ==
    CASE cls \in {"hass_lights", "hass_locks", "hass_climate"} ->
            {c \in Clients : /\ c.fails \in {"none", "call_service", "get_state"}
                             /\ c.discovered /\ c.all_group
                             /\ c.groups = {} /\ c.lights = {}
                             /\ (cls # "hass_locks" => c.locked)}
      [] cls = "hue_lights" ->
            {c \in Clients : /\ c.fails \in {"none", "discover", "set_group_action",
                                             "set_light_state"}
                             /\ c.locked}
      [] OTHER ->
            {c \in Clients : /\ c.fails = "none"
                             /\ c.text = <<"Cannot connect to host">>
                             /\ c.discovered /\ c.all_group
                             /\ c.groups = {} /\ c.lights = {} /\ c.locked}

\* no exception was raised inside execute
NoException == [thrown |-> FALSE, text |-> <<>>]

\* the exception a client method raised
Thrown(text) == [thrown |-> TRUE, text |-> text]

\* What one execute call did: what it returned or that it raised, the
\* client methods it awaited in order, and the exception a client method
\* raised, if one did.
Outcome(result, client_calls, exc) ==
    [result |-> result, client_calls |-> client_calls, exc |-> exc]

\* the same await as Awaited, outside any try block: the exception leaves
\* execute
AwaitedNoTry(client, before, method, failed, rest) ==
    IF client.fails = method
    THEN Outcome(Raised, Append(before, method), Thrown(client.text))
    ELSE Outcome(rest, Append(before, method), NoException)

\* await self.client.<method>(...) inside a try block: when the method
\* raises, what the except clause returns (failed, built from str(e)), and
\* otherwise what the rest of the block returns
Awaited(client, before, method, failed, rest) ==
    IF client.fails = method
    THEN Outcome(failed, Append(before, method), Thrown(client.text))
    ELSE Outcome(rest, Append(before, method), NoException)

\* the keys of HomeAssistantLightsWorkflow.room_mapping
HassRoomMapping ==
    {W_living_room, W_bedroom, <<"k","i","t","c","h","e","n">>,
     <<"b","a","t","h","r","o","o","m">>, <<"o","f","f","i","c","e">>, W_all}

\* the keys of HomeAssistantLockWorkflow.lock_mapping
HassLockMapping ==
    {W_front, <<"b","a","c","k">>, <<"g","a","r","a","g","e">>, <<"s","i","d","e">>}

\* HomeAssistantLightsWorkflow.execute, lines 217-222: the except clause
HassLightsFailed(text) ==
    Result("FAILURE",
           <<"I encountered difficulty with the lights, sir. The error was: ">> \o text,
           text)

\* HomeAssistantLightsWorkflow.execute (the extractor's rooms do not
\* include "all")
HassLightsExecute(w, entities, client) ==
    LET action == Get(entities, "action", "toggle")
        room == Lower(Get(entities, "room", W_living_room))
        has_brightness == "brightness" \in DOMAIN entities
        brightness == Get(entities, "brightness", 0)
        message ==
            CASE action = "on" ->
                   IF brightness # 0
                   THEN <<"I've set the ">> \o room \o <<" lights to ">>
                            \o IntToChars(brightness) \o <<"%, sir.">>
                   ELSE <<"I've illuminated the ">> \o room \o <<", sir.">>
              [] action = "off" ->
                   <<"The ">> \o room \o <<" is now dark, sir. Do try not to stub your toe.">>
              [] action = "dim" /\ has_brightness ->
                   <<"I've dimmed the ">> \o room \o <<" lights to ">>
                       \o IntToChars(brightness) \o <<"%, sir.">>
              [] OTHER -> <<"I've toggled the ">> \o room \o <<" lights, sir.">>
    IN  IF ~w.configured
        THEN Outcome(Result("FAILURE",
                            <<"Home Assistant is not configured. Please set HASS_URL and HASS_TOKEN environment variables.">>,
                            <<"No Home Assistant client">>),
                     <<>>, NoException)
        ELSE Awaited(client, <<>>, "call_service", HassLightsFailed(client.text),
                     Result("SUCCESS", message, <<>>))

\* HomeAssistantLockWorkflow.execute, lines 309-314: the except clause
HassLockFailed(text) ==
    Result("FAILURE", <<"There was a complication with the door lock, sir.">>, text)

\* HomeAssistantLockWorkflow.execute; the state get_state answers with is
\* locked or unlocked
HassLockExecute(w, entities, client) ==
    LET action == Get(entities, "action", "lock")
        door == Lower(Get(entities, "door", W_front))
    IN  IF ~w.configured
        THEN Outcome(Result("FAILURE",
                            <<"Home Assistant is not configured for lock control, sir.">>,
                            <<"No Home Assistant client">>),
                     <<>>, NoException)
        ELSE CASE action = "lock" ->
                    Awaited(client, <<>>, "call_service", HassLockFailed(client.text),
                            Result("SUCCESS",
                                   <<"The ">> \o door \o <<" door is now secured, sir.">>, <<>>))
               [] action = "unlock" ->
                    Awaited(client, <<>>, "call_service", HassLockFailed(client.text),
                            Result("SUCCESS",
                                   <<"I've unlocked the ">> \o door
                                       \o <<" door, sir. Do exercise appropriate caution.">>,
                                   <<>>))
               [] action = "check" ->
                    Awaited(client, <<>>, "get_state", HassLockFailed(client.text),
                            Result("SUCCESS",
                                   IF client.locked
                                   THEN <<"The ">> \o door \o <<" door is securely locked, sir.">>
                                   ELSE <<"The ">> \o door
                                            \o <<" door is currently unlocked, sir. Shall I secure it?">>,
                                   <<>>))
               [] OTHER ->
                    Outcome(Result("SUCCESS", <<"Lock action completed, sir.">>, <<>>),
                            <<>>, NoException)

\* HomeAssistantClimateWorkflow.execute, lines 395-400: the except clause
HassClimateFailed(text) ==
    Result("FAILURE", <<"The climate system is being uncooperative, sir.">>, text)

\* HomeAssistantClimateWorkflow.execute (nothing sets entities["mode"]; the
\* temperatures get_state answers with are left out of the message)
HassClimateExecute(w, entities, client) ==
    LET temperature == Get(entities, "temperature", 0)
    IN  IF ~w.configured
        THEN Outcome(Result("FAILURE",
                            <<"Home Assistant climate control is not configured, sir.">>,
                            <<"No Home Assistant client">>),
                     <<>>, NoException)
        ELSE IF temperature # 0
        THEN Awaited(client, <<>>, "call_service", HassClimateFailed(client.text),
                     Result("SUCCESS",
                            <<"I've set the temperature to ">> \o IntToChars(temperature)
                                \o <<" degrees, sir. Comfort is en route.">>,
                            <<>>))
        ELSE Awaited(client, <<>>, "get_state", HassClimateFailed(client.text),
                     Result("SUCCESS",
                            <<"The current temperature is ", "unknown",
                              " degrees, with the target set to ", "unknown", ", sir.">>,
                            <<>>))

\* the keys of PhilipsHueLightsWorkflow.MOODS
HueMoods ==
    {"romantic", "relax", "energize", "party", "bedtime", "focus", "movie", "morning"}

\* PhilipsHueLightsWorkflow._build_response
BuildResponse(action, room, has_brightness, brightness) ==
    CASE action = "on" ->
           IF has_brightness
           THEN <<"I've set the ">> \o room \o <<" lights to ">>
                    \o IntToChars(brightness) \o <<"%, sir.">>
           ELSE <<"I've illuminated the ">> \o room \o <<", sir.">>
      [] action = "off" ->
           <<"The ">> \o room \o <<" is now dark, sir. Do try not to stub your toe.">>
      [] action = "dim" /\ has_brightness ->
           <<"I've dimmed the ">> \o room \o <<" lights to ">>
               \o IntToChars(brightness) \o <<"%, sir.">>
      [] OTHER -> <<"I've toggled the ">> \o room \o <<" lights, sir.">>

\* PhilipsHueLightsWorkflow.execute, lines 311-316: the except clause of
\* the discovery
HueDiscoverFailed(text) ==
    Result("FAILURE",
           <<"I was unable to reach the Hue Bridge, sir. The error was: ">> \o text,
           text)

\* PhilipsHueLightsWorkflow.execute, lines 384-389: the except clause
HueFailed(text) ==
    Result("FAILURE",
           <<"I encountered difficulty with the lights, sir. The error was: ">> \o text,
           text)

\* a lookup that takes every name for a light's
FindTargetGuessing(client, room) ==
    IF room \in client.groups THEN "group" ELSE "light"

\* PhilipsHueLightsWorkflow.execute, lines 358-370: find_group_id(room),
\* and find_light_id(room) when it is None
FindTarget(client, room) ==
    IF room \in client.groups THEN "group"
    ELSE IF room \in client.lights THEN "light"
    ELSE "none"

\* PhilipsHueLightsWorkflow.execute, lines 318-389: after the discovery
\* (MOOD_RESPONSES has a response for every key of MOODS; the model writes
\* them as one text with the mood in it)
HueAfterDiscovery(entities, client, before) ==
    LET action == Get(entities, "action", "toggle")
        room == Lower(Get(entities, "room", W_all))
        has_brightness == "brightness" \in DOMAIN entities
        brightness == Get(entities, "brightness", 0)
        mood == Get(entities, "mood", "")
        message ==
            IF action = "mood" /\ mood # ""
            THEN <<"MOOD_RESPONSES[", mood, "]">>
            ELSE BuildResponse(action, room, has_brightness, brightness)
        done == Result("SUCCESS", message, <<>>)
    IN  IF action = "mood" /\ mood # "" /\ mood \notin HueMoods
        THEN Outcome(Result("FAILURE",
                            <<"I don't have a lighting preset for '", mood, "', sir.">>,
                            <<"Unknown mood: ", mood>>),
                     before, NoException)
        ELSE IF room = W_all
        THEN IF client.all_group
             THEN Awaited(client, before, "set_group_action", HueFailed(client.text), done)
             ELSE Outcome(Result("FAILURE",
                                 <<"I could not find the bridge home group for all lights, sir.">>,
                                 <<"No bridge_home grouped_light found">>),
                          before, NoException)
        ELSE IF FindTarget(client, room) = "group"
        THEN Awaited(client, before, "set_group_action", HueFailed(client.text), done)
        ELSE IF FindTarget(client, room) = "light"
        THEN Awaited(client, before, "set_light_state", HueFailed(client.text), done)
        ELSE Outcome(Result("FAILURE",
                            <<"I could not find a light or room called '">> \o room
                                \o <<"', sir.">>,
                            <<"Unknown light/group: ">> \o room),
                     before, NoException)

\* PhilipsHueLightsWorkflow.execute
HueExecute(w, entities, client) ==
    IF ~w.configured
    THEN Outcome(Result("FAILURE",
                        <<"Philips Hue is not configured. Please set HUE_BRIDGE_IP and HUE_APPLICATION_KEY environment variables.">>,
                        <<"No Hue client">>),
                 <<>>, NoException)
    ELSE IF ~client.discovered
    THEN IF client.fails = "discover"
         THEN Outcome(HueDiscoverFailed(client.text), <<"discover">>, Thrown(client.text))
         ELSE HueAfterDiscovery(entities, client, <<"discover">>)
    ELSE HueAfterDiscovery(entities, client, <<>>)

\* execute of a workflow of the repository, dispatched on the class; the
\* workflows of base.py await no client method
ExecuteSkill(w, entities, client) ==
    CASE w.cls = "hass_lights"  -> HassLightsExecute(w, entities, client)
      [] w.cls = "hass_locks"   -> HassLockExecute(w, entities, client)
      [] w.cls = "hass_climate" -> HassClimateExecute(w, entities, client)
      [] w.cls = "hue_lights"   -> HueExecute(w, entities, client)
      [] OTHER -> Outcome(TheOne(Execute(w, <<>>, entities)), <<>>, NoException)

\* ------------------------------------------------------- language model

\* The texts the provider's API answers with
Replies == {<<"Done, sir.">>, <<"Most kind, sir.">>}

\* LLMProvider.generate_response (the same in AnthropicLLM, OpenAILLM and
\* OllamaLLM): the user message is appended, the provider is called, and
\* when it answers the answer is appended and returned; when the request
\* raises, the exception leaves with the user message already appended.
GenerateResponse(history, user_input) ==
    LET asked == Append(history, [role |-> "user", content |-> user_input])
    IN  {[raised |-> FALSE, reply |-> r,
          history |-> Append(asked, [role |-> "assistant", content |-> r])] :
            r \in Replies}
        \cup {[raised |-> TRUE, reply |-> <<>>, history |-> asked]}

\* LLMProvider.clear_history
ClearedHistory == <<>>

\* ---------------------------------------------------------- process_input

\* the failure_context f-string, mutated: the error text is left out
FailureContextNoError(text, w, result) ==
    <<"The user asked: '">> \o text \o <<"'. The ", Name(w),
      " system responded with an error.">>

\* line 139: the failure_context f-string
FailureContext(text, w, result) ==
    <<"The user asked: '">> \o text \o <<"'. The ", Name(w),
      " system responded with an error: ">>
        \o (IF result.error # <<>> THEN result.error ELSE result.message)

\* the status test, mutated: everything but SUCCESS goes to the language model
GoesToLLMUnlessSuccess(status) == status # "SUCCESS"

\* lines 135-142: the statuses whose result goes to the language model
GoesToLLM(status) == status = "FAILURE"

\* the input of the language model, mutated: the capability summary is added
NoMatchInputEnhanced(d, text) ==
    IF d = <<>> THEN text
    ELSE text \o <<"\n\nAvailable capabilities:\n">>
              \o [i \in 1..Len(d) |-> d[i].key]

\* lines 149-155: what is passed to the language model when nothing matched
NoMatchInput(d, text) == text

\* the record of one process_input call
CallRecord(text, matched, executed, result, llm_inputs, g, ret) ==
    [text |-> text, matched |-> matched, executed |-> executed, result |-> result,
     llm_inputs |-> llm_inputs, reply |-> g.reply, ret |-> ret,
     raised |-> (result.raised \/ g.raised), history |-> g.history]

\* no language-model call, mutated: the workflow's answer is kept in the history
NoLLMRecorded(history) ==
    [raised |-> FALSE, reply |-> <<>>,
     history |-> Append(history, [role |-> "assistant", content |-> <<>>])]

\* no language-model call was made
NoLLM(history) == [raised |-> FALSE, reply |-> <<>>, history |-> history]

\* the execute calls, mutated: a failed execute is called a second time
ExecuteCallsWithRetry(w, result) ==
    IF ~result.raised /\ result.status = "FAILURE" THEN <<w, w>> ELSE <<w>>

\* line 129: the execute calls process_input makes for the workflow that
\* matched, whatever the call yields: the one `await`
ExecuteCalls(w, result) == <<w>>

\* VoiceAssistant.process_input: every way the call can go, each with what
\* it did (the workflow matched, the execute calls, the language-model
\* inputs), what it returned or that it raised, and the history it leaves
ProcessInput(d, history, text) ==
    LET matching_workflow == FindMatchingWorkflow(d, text)
    IN  IF matching_workflow # NoWorkflow
        THEN LET entities == ExtractEntities(text)
             IN  UNION {
                   IF result.raised
                   THEN {CallRecord(text, matching_workflow, ExecuteCalls(matching_workflow, result),
                                    result, <<>>, NoLLM(history), <<>>)}
                   ELSE IF GoesToLLM(result.status)
                   THEN LET failure_context ==
                                FailureContext(text, matching_workflow, result)
                        IN  {CallRecord(text, matching_workflow, ExecuteCalls(matching_workflow, result),
                                        result, <<failure_context>>, g, g.reply) :
                                g \in GenerateResponse(history, failure_context)}
                   ELSE {CallRecord(text, matching_workflow, ExecuteCalls(matching_workflow, result),
                                    result, <<>>, NoLLM(history), result.message)}
                   : result \in Execute(matching_workflow, text, entities)}
        ELSE {CallRecord(text, NoWorkflow, <<>>, NoResult,
                         <<NoMatchInput(d, text)>>, g, g.reply) :
                g \in GenerateResponse(history, NoMatchInput(d, text))}

\* no process_input call was made yet
NoCall ==
    [entry |-> "none", text |-> <<>>, matched |-> NoWorkflow, executed |-> <<>>,
     result |-> NoResult, llm_inputs |-> <<>>, reply |-> <<>>, ret |-> <<>>,
     raised |-> FALSE, history |-> <<>>, propagated |-> FALSE]

\* The utterances typed in chat mode
ChatUtterances == {U_Joke, U_LockFront, U_UnlockBack, U_SetTemp, U_TurnOnAC}

\* VoiceAssistant.run_single_interaction: asyncio.run(process_input(text));
\* whatever process_input raises leaves run_single_interaction too
RunSingleInteraction(text) ==
    /\ interactions < MaxInteractions
    /\ \E o \in ProcessInput(workflows, conversation_history, text) :
          /\ call' = [entry |-> "run_single_interaction", text |-> o.text,
                      matched |-> o.matched, executed |-> o.executed,
                      result |-> o.result, llm_inputs |-> o.llm_inputs,
                      reply |-> o.reply, ret |-> o.ret, raised |-> o.raised,
                      history |-> o.history, propagated |-> o.raised]
          /\ conversation_history' = o.history
    /\ interactions' = interactions + 1
    /\ UNCHANGED <<regVars, pureVars, max_history, voiceVars>>

\* VoiceAssistant.clear_history
ClearHistory ==
    /\ conversation_history' = ClearedHistory
    /\ UNCHANGED <<regVars, pureVars, max_history, chatVars, voiceVars>>

\* LLMProvider.generate_response, called on the provider
LLMGenerate(user_input) ==
    /\ interactions < MaxInteractions
    /\ \E g \in GenerateResponse(conversation_history, user_input) :
          conversation_history' = g.history
    /\ interactions' = interactions + 1
    /\ UNCHANGED <<regVars, pureVars, max_history, call, voiceVars>>

\* ------------------------------------------------------ activation cycle

\* AssistantState
States == {"IDLE", "LISTENING", "THINKING", "SPEAKING", "ERROR"}

\* line 298: what is said when nothing was heard
DidntCatch == <<"I didn't catch that, sir.">>

\* line 315: the fixed apology
Apology == <<"I apologize, sir, but I encountered an error processing that request.">>

\* What the speech-to-text provider transcribes a recording to
VoiceUtterances == {U_Joke, U_LockFront}

\* The wake detectors: the audio ones (PorcupineDetector, OpenWakeWordDetector),
\* whose loop reads frames, and KeyboardWakeDetector, whose loop reads lines
DetectorKinds == {"audio", "keyboard"}

\* a cycle that has not started, and one that has ended
IdleCycle == [pc |-> "idle", text |-> <<>>, say |-> <<>>]

DoneCycle == [pc |-> "done", text |-> <<>>, say |-> <<>>]

\* the cycles in progress
ActiveCycles == {c \in DOMAIN cycles : cycles[c].pc \notin {"idle", "done"}}

\* listen, line 255: _set_state(LISTENING)
ListenBegin(c) ==
    /\ cycles[c].pc = "listen"
    /\ state' = "LISTENING"
    /\ cycles' = [cycles EXCEPT ![c].pc = "record"]
    /\ UNCHANGED <<regVars, pureVars, llmVars, chatVars, detVars, mainVars>>

\* listen, lines 257-268 and 280-284: the recording; audio that is too short
\* and an exception both make listen return None, otherwise
\* _set_state(THINKING) and on to the transcription
Record(c) ==
    /\ cycles[c].pc = "record"
    /\ \/ /\ state' = "THINKING"
          /\ cycles' = [cycles EXCEPT ![c].pc = "transcribe"]
       \/ /\ cycles' = [cycles EXCEPT ![c].pc = "speak", ![c].say = DidntCatch]
          /\ UNCHANGED state
    /\ UNCHANGED <<regVars, pureVars, llmVars, chatVars, detVars, mainVars>>

\* listen, lines 270-284: the transcription; an empty text and an exception
\* both make listen return None
Transcribe(c) ==
    /\ cycles[c].pc = "transcribe"
    /\ \/ \E text \in VoiceUtterances :
              cycles' = [cycles EXCEPT ![c].pc = "think", ![c].text = text]
       \/ cycles' = [cycles EXCEPT ![c].pc = "speak", ![c].say = DidntCatch]
    /\ UNCHANGED <<state, regVars, pureVars, llmVars, chatVars, detVars, mainVars>>

\* handle_activation, line 302: _set_state(THINKING)
Think(c) ==
    /\ cycles[c].pc = "think"
    /\ state' = "THINKING"
    /\ cycles' = [cycles EXCEPT ![c].pc = "process"]
    /\ UNCHANGED <<regVars, pureVars, llmVars, chatVars, detVars, mainVars>>

\* where the cycle goes after process_input, mutated: no try/except, so an
\* exception leaves handle_activation at once
AfterProcessUncaught(raised) == IF raised THEN "done" ELSE "speak"

\* handle_activation, lines 304-317: the try block ends in speak(response)
\* and the except block in speak(apology), so speak follows either way
AfterProcess(raised) == "speak"

\* handle_activation, lines 304-317: process_input inside try/except; an
\* exception is caught and the apology is what is spoken
Process(c) ==
    /\ cycles[c].pc = "process"
    /\ \E o \in ProcessInput(workflows, conversation_history, cycles[c].text) :
          /\ call' = [entry |-> "handle_activation", text |-> o.text,
                      matched |-> o.matched, executed |-> o.executed,
                      result |-> o.result, llm_inputs |-> o.llm_inputs,
                      reply |-> o.reply,
                      ret |-> IF o.raised THEN Apology ELSE o.ret,
                      raised |-> o.raised, history |-> o.history,
                      propagated |-> FALSE]
          /\ conversation_history' = o.history
          /\ cycles' = [cycles EXCEPT ![c].pc = AfterProcess(o.raised),
                                      ![c].say = IF o.raised THEN Apology ELSE o.ret]
    /\ UNCHANGED <<state, regVars, pureVars, max_history, interactions, detVars, mainVars>>

\* speak, line 231: _set_state(SPEAKING)
SpeakBegin(c) ==
    /\ cycles[c].pc = "speak"
    /\ state' = "SPEAKING"
    /\ cycles' = [cycles EXCEPT ![c].pc = "play"]
    /\ UNCHANGED <<regVars, pureVars, llmVars, chatVars, detVars, mainVars>>

\* the state speak leaves, mutated: a failed synthesis leaves ERROR
StateAfterSpeakOrError(ok) == IF ok THEN "IDLE" ELSE "ERROR"

\* speak, lines 245-246: finally _set_state(IDLE), whether or not synthesis
\* and playback succeeded
StateAfterSpeak(ok) == "IDLE"

\* speak, lines 233-246: synthesis and playback, their exception caught, and
\* the finally clause; handle_activation returns
SpeakEnd(c) ==
    /\ cycles[c].pc = "play"
    /\ \E ok \in BOOLEAN : state' = StateAfterSpeak(ok)
    /\ cycles' = [cycles EXCEPT ![c] = DoneCycle]
    /\ UNCHANGED <<regVars, pureVars, llmVars, chatVars, detVars, mainVars>>

\* speak called on its own, outside an activation cycle and before run (as
\* run_text_chat does with each response): line 231, _set_state(SPEAKING)
SpeakCall ==
    /\ main_pc = "init"
    /\ state' = "SPEAKING"
    /\ main_pc' = "speak"
    /\ UNCHANGED <<cycles, regVars, pureVars, llmVars, chatVars, detVars, running>>

\* speak called on its own: lines 233-246, synthesis and playback, their
\* exception caught, and the finally clause
SpeakReturn ==
    /\ main_pc = "speak"
    /\ \E ok \in BOOLEAN : state' = StateAfterSpeak(ok)
    /\ main_pc' = "init"
    /\ UNCHANGED <<cycles, regVars, pureVars, llmVars, chatVars, detVars, running>>

\* ------------------------------------------------- wake detector and run

\* VoiceAssistant.run, lines 340-353: the detector is created and started
\* (KeyboardWakeDetector when the configured one cannot start)
Run ==
    /\ main_pc = "init"
    /\ running' = TRUE
    /\ \E kind \in DetectorKinds : detector' = kind
    /\ det_running' = TRUE
    /\ det_pc' = "loop"
    /\ main_pc' = "running"
    /\ UNCHANGED <<state, cycles, regVars, pureVars, llmVars, chatVars, det_cycle, started, pending, wakes>>

\* the user says the wake word or presses Enter
WakeTrigger ==
    /\ wakes < MaxWakes
    /\ wakes' = wakes + 1
    /\ pending' = pending + 1
    /\ UNCHANGED <<state, cycles, regVars, pureVars, llmVars, chatVars, mainVars,
                   detector, det_running, det_pc, det_cycle, started>>

\* _detection_loop: `while self._running`
DetectorLoop ==
    /\ det_pc = "loop"
    /\ det_pc' = IF det_running THEN "wait" ELSE "exit"
    /\ UNCHANGED <<state, cycles, regVars, pureVars, llmVars, chatVars, mainVars,
                   detector, det_running, det_cycle, started, pending, wakes>>

\* the callback is invoked: _on_wake_word_detected starts handle_activation
StartCycle ==
    /\ started' = started + 1
    /\ cycles' = [cycles EXCEPT ![started + 1].pc = "listen"]
    /\ det_cycle' = started + 1
    /\ det_pc' = "callback"

\* the audio loops: a frame is read; with the wake word in it the callback
\* is called, without it the loop goes round
AudioFrame ==
    /\ det_pc = "wait"
    /\ detector = "audio"
    /\ \/ /\ pending > 0
          /\ pending' = pending - 1
          /\ StartCycle
       \/ /\ det_pc' = "loop"
          /\ UNCHANGED <<pending, started, cycles, det_cycle>>
    /\ UNCHANGED <<state, regVars, pureVars, llmVars, chatVars, mainVars,
                   detector, det_running, wakes>>

\* KeyboardWakeDetector._detection_loop: input() returns a line
KeyboardLine ==
    /\ det_pc = "wait"
    /\ detector = "keyboard"
    /\ pending > 0
    /\ pending' = pending - 1
    /\ det_pc' = "check"
    /\ UNCHANGED <<state, cycles, regVars, pureVars, llmVars, chatVars, mainVars,
                   detector, det_running, det_cycle, started, wakes>>

\* KeyboardWakeDetector._detection_loop: input() raises EOFError, break
KeyboardEOF ==
    /\ det_pc = "wait"
    /\ detector = "keyboard"
    /\ det_pc' = "exit"
    /\ UNCHANGED <<state, cycles, regVars, pureVars, llmVars, chatVars, mainVars,
                   detector, det_running, det_cycle, started, pending, wakes>>

\* KeyboardWakeDetector._detection_loop: `if self._running: callback()`
KeyboardCheck ==
    /\ det_pc = "check"
    /\ IF det_running
       THEN StartCycle
       ELSE /\ det_pc' = "loop"
            /\ UNCHANGED <<started, cycles, det_cycle>>
    /\ UNCHANGED <<state, regVars, pureVars, llmVars, chatVars, mainVars,
                   detector, det_running, pending, wakes>>

\* asyncio.run, mutated: the activation is scheduled and not waited for
AsyncioRunReturnsAtOnce(c) == TRUE

\* line 324: asyncio.run(self.handle_activation()) returns when
\* handle_activation has returned
AsyncioRunReturns(c) == cycles[c].pc = "done"

\* the callback returns to the detection loop
CallbackReturn ==
    /\ det_pc = "callback"
    /\ AsyncioRunReturns(det_cycle)
    /\ det_pc' = "loop"
    /\ UNCHANGED <<state, cycles, regVars, pureVars, llmVars, chatVars, mainVars,
                   detector, det_running, det_cycle, started, pending, wakes>>

\* VoiceAssistant.stop, lines 379-382 (called by run when it is
\* interrupted): _running = False and the detector's stop, which clears its
\* _running; the audio detectors then join the thread for at most two
\* seconds, the keyboard detector does not wait at all
StopBegin ==
    /\ main_pc = "running"
    /\ running' = FALSE
    /\ det_running' = FALSE
    /\ main_pc' = "stopping"
    /\ UNCHANGED <<state, cycles, regVars, pureVars, llmVars, chatVars,
                   detector, det_pc, det_cycle, started, pending, wakes>>

\* VoiceAssistant.stop, lines 383-385: the join has returned (the thread
\* ended or the two seconds passed); _wake_detector = None, _set_state(IDLE)
StopEnd ==
    /\ main_pc = "stopping"
    /\ detector' = "none"
    /\ state' = "IDLE"
    /\ main_pc' = "stopped"
    /\ UNCHANGED <<cycles, regVars, pureVars, llmVars, chatVars, running,
                   det_running, det_pc, det_cycle, started, pending, wakes>>

\* ------------------------------------------- calls that change nothing

\* The phrases the utterances given to the extractor are made of: words of
\* each rule of _extract_entities, some capitalised, and numbers on both
\* sides of 100
Vocabulary ==
    {<<"T","u","r","n"," ","o","n">>,
     <<"s","w","i","t","c","h"," ","o","f","f">>,
     <<"d","i","m">>,
     <<"L","o","c","k">>,
     <<"u","n","l","o","c","k">>,
     <<"c","h","e","c","k">>,
     <<"w","h","o">>,
     <<"r","e","l","a","x">>,
     <<"p","a","r","t","y">>,
     <<"m","o","v","i","e">>,
     <<"g","o","o","d"," ","n","i","g","h","t">>,
     <<"m","o","r","n","i","n","g">>,
     <<"k","i","t","c","h","e","n">>,
     <<"b","e","d","r","o","o","m">>,
     <<"g","a","r","a","g","e">>,
     <<"l","i","v","i","n","g"," ","r","o","o","m">>,
     <<"f","r","o","n","t">>,
     <<"b","a","c","k">>,
     <<"5","0">>,
     <<"1","0","0">>,
     <<"1","0","1">>}

\* phrases joined by single spaces
RECURSIVE Join(_)
Join(ps) ==
    IF ps = <<>> THEN <<>>
    ELSE IF Len(ps) = 1 THEN ps[1]
    ELSE ps[1] \o <<" ">> \o Join(Tail(ps))

\* the on, off and dim phrases of the action rules, each with its action
CommandPhrases ==
    {<<OnPhrases[i], "on">> : i \in 1..Len(OnPhrases)}
        \cup {<<OffPhrases[i], "off">> : i \in 1..Len(OffPhrases)}
        \cup {<<W_dim, "dim">>}

\* "<phrase> the <room> lights"
RoomCommand(phrase, room) ==
    phrase \o <<" ","t","h","e"," ">> \o room \o <<" ","l","i","g","h","t","s">>

\* a command for the lights of each room of the extractor's list
RoomCommands ==
    {RoomCommand(c[1], Rooms[j]) : c \in CommandPhrases, j \in 1..Len(Rooms)}

\* The utterances given to the extractor: up to MaxPhrases phrases, and
\* the utterances given to the workflows, and the room commands
ExtractTexts ==
    {Join(ps) : ps \in UNION {[1..n -> Vocabulary] : n \in 0..MaxPhrases}}
        \cup Utterances \cup {U_LockMovieParty, U_DimBedroom} \cup RoomCommands

\* the call workflow.matches(text) returns
MatchesCall ==
    /\ applied.fn = "matches"
    /\ ~applied.done
    /\ applied' = [applied EXCEPT !.done = TRUE,
                                  !.matches = MatchesText(applied.w, applied.text)]
    /\ UNCHANGED <<regVars, llmVars, chatVars, voiceVars, skill, envVars>>

\* the call self._extract_entities(text) returns
ExtractEntitiesCall ==
    /\ applied.fn = "extract"
    /\ ~applied.done
    /\ applied' = [applied EXCEPT !.done = TRUE,
                                  !.entities = ExtractEntities(applied.text)]
    /\ UNCHANGED <<regVars, llmVars, chatVars, voiceVars, skill, envVars>>

\* a call self.workflows.get_all_context_for_llm(): its result, the
\* registry it was made on, and the same of the call before it
GetAllContextCall ==
    /\ applied.fn \in {"none", "context"}
    /\ applied.calls < MaxContextCalls
    /\ applied' = [applied EXCEPT !.fn = "context",
                                  !.done = TRUE,
                                  !.calls = applied.calls + 1,
                                  !.at = workflows,
                                  !.context = GetAllContextForLLM(workflows),
                                  !.prev_at = applied.at,
                                  !.prev_context = applied.context]
    /\ UNCHANGED <<regVars, llmVars, chatVars, voiceVars, skill, envVars>>

\* -------------------------------------------------------- execute calls

\* "Set the temperature to N"
SetTemperatureTo(n) == <<"S","e","t"," ","t","h","e"," ","t","e","m","p","e","r","a","t","u","r","e"," ","t","o"," ">> \o IntToChars(n)

\* the temperatures asked for: the skill's example, and numbers on both
\* sides of the extractor's threshold of 100
Temperatures == {1, 21, 72, 100, 101, 150}

\* the utterances asking the climate skill for a temperature
ClimateUtterances == {SetTemperatureTo(n) : n \in Temperatures}

\* a call workflow.execute(text, entities) about to be made: the workflow,
\* the utterance and the entities extracted from it, and the service
PendingSkill(w, text, client) ==
    [w |-> w, text |-> text, entities |-> ExtractEntities(text), client |-> client,
     done |-> FALSE, outcome |-> Outcome(NoResult, <<>>, NoException)]

\* no execute call is to be made
NoSkill ==
    [w |-> NoWorkflow, text |-> <<>>, entities |-> <<>>,
     client |-> TheOne(ClientsOf("None")),
     done |-> TRUE, outcome |-> Outcome(NoResult, <<>>, NoException)]

\* the call workflow.execute(text, entities) returns or raises
ExecuteCall ==
    /\ ~skill.done
    /\ skill' = [skill EXCEPT !.done = TRUE,
                              !.outcome = ExecuteSkill(skill.w, skill.entities, skill.client)]
    /\ UNCHANGED <<regVars, llmVars, chatVars, voiceVars, applied, envVars>>

\* ------------------------------------------------------- specifications

\* WorkflowManager.__init__
NoOp == [op |-> "init", name |-> "", arg |-> NoWorkflow, present |-> FALSE, raised |-> FALSE,
         seq |-> 0, x |-> ""]

\* the registry a sequence of register calls builds
RECURSIVE RegisterAll(_, _)
RegisterAll(d, ws) ==
    IF ws = <<>> THEN d
    ELSE RegisterAll(DictSet(d, Name(Head(ws)), Head(ws)), Tail(ws))

Wf(cls, configured) == [cls |-> cls, configured |-> configured]

\* create_default_workflow_manager
DefaultManager ==
    RegisterAll(<<>>, <<Wf("doorbell", FALSE), Wf("thermostat", FALSE),
                        Wf("weather", FALSE), Wf("timer", FALSE)>>)

\* the same registrations with the controllers passed in
ConfiguredManager ==
    RegisterAll(<<>>, <<Wf("doorbell", TRUE), Wf("thermostat", TRUE),
                        Wf("weather", FALSE), Wf("timer", FALSE)>>)

\* the default manager with an application's own workflow registered after
CustomManager == RegisterAll(DefaultManager, <<CustomWorkflow>>)

\* The workflow managers a VoiceAssistant is constructed with
Managers == {DefaultManager, ConfiguredManager, CustomManager}

\* a call about to be made: the function and its arguments
Pending(fn, w, text) ==
    [fn |-> fn, w |-> w, text |-> text, done |-> FALSE, matches |-> FALSE, entities |-> <<>>,
     calls |-> 0, at |-> <<>>, context |-> <<>>, prev_at |-> <<>>, prev_context |-> <<>>]

\* no such call is being made
NoApplied == Pending("none", NoWorkflow, <<>>)

\* ------------------------------------------------- building the registry

\* create_workflow_manager has not run, and no environment variable is set
NoBuild == [hue_ip |-> FALSE, hue_key |-> FALSE, hass_token |-> FALSE, built |-> FALSE]

\* manager.register(workflow), on the dict
RegisterIn(d, w) == DictSet(d, Name(w), w)

\* manager.unregister(name), on the dict
UnregisterIn(d, name) == IF UnregisterGuard(d, name) THEN DictDel(d, name) ELSE d

\* the Hue workflow is kept beside the Home Assistant one
ReplacedLightsKept(d) == d

\* main.py lines 137-140: the lights workflow the Home Assistant one replaces
ReplacedLights(d) ==
    IF HasKey(d, "hue_lights") THEN UnregisterIn(d, "hue_lights")
    ELSE IF HasKey(d, "lights") THEN UnregisterIn(d, "lights")
    ELSE d

\* main.create_workflow_manager under the environment env: HUE_BRIDGE_IP,
\* HUE_APPLICATION_KEY (or HUE_USERNAME) and HASS_TOKEN set or not.  The
\* Hue workflow has a client when the bridge's address and the key are
\* both set; the Home Assistant workflows, registered only when the token
\* is set, always have one.
CreateWorkflowManager(env) ==
    LET default == DefaultManager
        with_hue ==
            IF env.hue_ip
            THEN RegisterIn(UnregisterIn(default, "lights"),
                            Wf("hue_lights", env.hue_key))
            ELSE default
    IN  IF env.hass_token
        THEN RegisterAll(ReplacedLights(with_hue),
                         <<Wf("hass_lights", TRUE), Wf("hass_locks", TRUE),
                           Wf("hass_climate", TRUE)>>)
        ELSE with_hue

\* workflow_manager = create_workflow_manager()
CreateWorkflowManagerCall ==
    /\ ~build.built
    /\ build' = [build EXCEPT !.built = TRUE]
    /\ workflows' = CreateWorkflowManager(build)
    /\ UNCHANGED <<last_op, llmVars, chatVars, voiceVars, applied, skill, hue>>

\* a call self.workflows.find_matching_workflow(text) on the registry built
FindCall(text) ==
    /\ build.built
    /\ applied' = [Pending("find", FindMatchingWorkflow(workflows, text), text)
                      EXCEPT !.done = TRUE]
    /\ UNCHANGED <<regVars, llmVars, chatVars, voiceVars, skill, envVars>>

\* ------------------------------- the Hue client over several execute calls

\* the utterances the Hue workflow is executed on
HueUtterances == {U_TurnOnLiving, U_DimBedroom, U_TurnOffAll, U_Romantic}

\* A PhilipsHueClient just constructed (line 59: _discovered = False) and
\* the bridge it talks to; no execute call made yet.
NewHue(all_group, groups, lights) ==
    [discovered |-> FALSE, all_group |-> all_group, groups |-> groups, lights |-> lights,
     executes |-> 0, before |-> FALSE, outcome |-> Outcome(NoResult, <<>>, NoException)]

\* no Hue client
NoHue == NewHue(FALSE, {}, {})

\* a discover() that never sets _discovered
DiscoveredNever(client) == client.discovered

\* _discovered once execute has returned: discover() is awaited when it is
\* False, and sets it (line 99) when none of its requests raised
DiscoveredAfter(client) == client.discovered \/ client.fails # "discover"

\* One execute call of the workflow of this client: the bridge answers
\* every request, or the request `fails` raises.
HueExecuteCall(text, fails, exc) ==
    /\ hue.executes < MaxExecutes
    /\ LET client == [fails |-> fails, text |-> exc, discovered |-> hue.discovered,
                      all_group |-> hue.all_group, groups |-> hue.groups,
                      lights |-> hue.lights, locked |-> TRUE]
       IN  hue' = [hue EXCEPT !.discovered = DiscoveredAfter(client),
                              !.executes = hue.executes + 1,
                              !.before = hue.discovered,
                              !.outcome = HueExecute(Wf("hue_lights", TRUE),
                                                     ExtractEntities(text), client)]
    /\ UNCHANGED <<regVars, llmVars, chatVars, voiceVars, applied, skill, build>>

\* neither create_workflow_manager nor a Hue client is part of the run
EnvIdle ==
    /\ build = NoBuild
    /\ hue = NoHue

\* VoiceAssistant.__init__, lines 78-83, and no detector yet
VoiceIdle ==
    /\ state = "IDLE"
    /\ cycles = [c \in 1..MaxWakes |-> IdleCycle]
    /\ running = FALSE
    /\ main_pc = "init"
    /\ detector = "none"
    /\ det_running = FALSE
    /\ det_pc = "off"
    /\ det_cycle = 0
    /\ started = 0
    /\ pending = 0
    /\ wakes = 0

\* the registry alone: an empty WorkflowManager and any register/unregister calls
RegistryInit ==
    /\ workflows = <<>>
    /\ last_op = NoOp
    /\ conversation_history = <<>>
    /\ max_history = DefaultMaxHistory
    /\ call = NoCall
    /\ interactions = 0
    /\ VoiceIdle
    /\ applied = NoApplied
    /\ skill = NoSkill
    /\ EnvIdle

RegistryNext ==
    \/ \E w \in BaseWorkflows : Register(w)
    \/ \E name \in UnregisterNames : Unregister(name)

SpecRegistry == RegistryInit /\ [][RegistryNext]_vars

\* chat mode (main.run_text_chat): a VoiceAssistant over one of the managers,
\* resolving typed utterances and clearing the history on command
ChatInit ==
    /\ workflows \in Managers
    /\ last_op = NoOp
    /\ conversation_history = <<>>
    /\ max_history = DefaultMaxHistory
    /\ call = NoCall
    /\ interactions = 0
    /\ VoiceIdle
    /\ applied = NoApplied
    /\ skill = NoSkill
    /\ EnvIdle

ChatNext ==
    \/ \E text \in ChatUtterances : RunSingleInteraction(text)
    \/ ClearHistory

SpecChat == ChatInit /\ [][ChatNext]_vars

\* The values LLMConfig.max_history is set to: 0 (unlimited), the smallest
\* limit, and the default
MaxHistoryValues == {0, 1, DefaultMaxHistory}

\* the provider alone: an LLMProvider and any generate_response and
\* clear_history calls
LLMInit ==
    /\ workflows = <<>>
    /\ last_op = NoOp
    /\ conversation_history = <<>>
    /\ max_history \in MaxHistoryValues
    /\ call = NoCall
    /\ interactions = 0
    /\ VoiceIdle
    /\ applied = NoApplied
    /\ skill = NoSkill
    /\ EnvIdle

LLMNext ==
    \/ \E user_input \in ChatUtterances : LLMGenerate(user_input)
    \/ ClearHistory

SpecLLM == LLMInit /\ [][LLMNext]_vars

\* voice mode (VoiceAssistant.run): the main thread, the detector thread
\* and the activation cycles the detector's callback runs
VoiceInit ==
    /\ workflows \in Managers
    /\ last_op = NoOp
    /\ conversation_history = <<>>
    /\ max_history = DefaultMaxHistory
    /\ call = NoCall
    /\ interactions = 0
    /\ VoiceIdle
    /\ applied = NoApplied
    /\ skill = NoSkill
    /\ EnvIdle

VoiceNext ==
    \/ SpeakCall
    \/ SpeakReturn
    \/ Run
    \/ WakeTrigger
    \/ DetectorLoop
    \/ AudioFrame
    \/ KeyboardLine
    \/ KeyboardEOF
    \/ KeyboardCheck
    \/ CallbackReturn
    \/ StopBegin
    \/ StopEnd
    \/ \E c \in 1..MaxWakes :
          \/ ListenBegin(c)
          \/ Record(c)
          \/ Transcribe(c)
          \/ Think(c)
          \/ Process(c)
          \/ SpeakBegin(c)
          \/ SpeakEnd(c)

SpecVoice == VoiceInit /\ [][VoiceNext]_vars

\* one step of an activation cycle other than the call of process_input
CycleStep ==
    \E c \in 1..MaxWakes :
        \/ ListenBegin(c)
        \/ Record(c)
        \/ Transcribe(c)
        \/ Think(c)
        \/ SpeakBegin(c)
        \/ SpeakEnd(c)

\* a cycle is inside process_input
InProcess == \E c \in 1..MaxWakes : cycles[c].pc = "process"

\* process_input returns or raises. This is WF_vars(\E c : Process(c))
\* written out: Process(c) can be taken exactly when cycle c is at
\* "process", and taking it moves the cycle on
ProcessReturns ==
    \/ []<>(~InProcess)
    \/ []<><<\E c \in 1..MaxWakes : Process(c)>>_vars

\* The same program when the thread that runs the cycle keeps being
\* scheduled and every call a cycle makes (recording, transcription,
\* process_input, synthesis, playback) returns or raises: a cycle that can
\* take its next step takes it
SpecVoiceFair ==
    /\ VoiceInit
    /\ [][VoiceNext]_vars
    /\ WF_vars(CycleStep)
    /\ ProcessReturns

\* the functions that change nothing, each applied to every input
PureInit ==
    /\ workflows = <<>>
    /\ last_op = NoOp
    /\ conversation_history = <<>>
    /\ max_history = DefaultMaxHistory
    /\ call = NoCall
    /\ interactions = 0
    /\ VoiceIdle
    /\ applied \in {Pending("matches", w, text) : w \in Workflows, text \in Utterances}
                    \cup {Pending("extract", NoWorkflow, text) : text \in ExtractTexts}
    /\ skill = NoSkill
    /\ EnvIdle

PureNext ==
    \/ MatchesCall
    \/ ExtractEntitiesCall

SpecPure == PureInit /\ [][PureNext]_vars

\* The workflows registered where the capabilities text is asked for
ContextWorkflows == {Wf("doorbell", FALSE), Wf("weather", FALSE), Wf("timer", FALSE)}

\* the registry and the capabilities text: register, unregister and
\* get_all_context_for_llm calls in any order
ContextNext ==
    \/ \E w \in ContextWorkflows : Register(w)
    \/ \E w \in ContextWorkflows : Unregister(Name(w))
    \/ GetAllContextCall

SpecContext == RegistryInit /\ [][ContextNext]_vars

\* Every workflow of the repository is executed once, on the entities of an
\* utterance, against a service that answers or raises.
SkillInit ==
    /\ workflows = <<>>
    /\ last_op = NoOp
    /\ conversation_history = <<>>
    /\ max_history = DefaultMaxHistory
    /\ call = NoCall
    /\ interactions = 0
    /\ VoiceIdle
    /\ applied = NoApplied
    /\ skill \in UNION {{PendingSkill(w, text, client) :
                            text \in SkillUtterances \cup ClimateUtterances,
                            client \in ClientsOf(w.cls)} :
                        w \in SkillWorkflows}
    /\ EnvIdle

SkillNext == ExecuteCall

SpecSkill == SkillInit /\ [][SkillNext]_vars

\* main.create_workflow_manager under every environment, and the dispatch
\* of utterances on the registry it returns
ManagerInit ==
    /\ workflows = <<>>
    /\ last_op = NoOp
    /\ conversation_history = <<>>
    /\ max_history = DefaultMaxHistory
    /\ call = NoCall
    /\ interactions = 0
    /\ VoiceIdle
    /\ applied = NoApplied
    /\ skill = NoSkill
    /\ build \in [hue_ip : BOOLEAN, hue_key : BOOLEAN, hass_token : BOOLEAN, built : {FALSE}]
    /\ hue = NoHue

ManagerNext ==
    \/ CreateWorkflowManagerCall
    \/ \E text \in Utterances \cup SkillUtterances \cup ExampleUtterances : FindCall(text)

SpecManager == ManagerInit /\ [][ManagerNext]_vars

\* one Hue client and its workflow, executed several times against a
\* bridge whose requests may raise
HueInit ==
    /\ workflows = <<>>
    /\ last_op = NoOp
    /\ conversation_history = <<>>
    /\ max_history = DefaultMaxHistory
    /\ call = NoCall
    /\ interactions = 0
    /\ VoiceIdle
    /\ applied = NoApplied
    /\ skill = NoSkill
    /\ build = NoBuild
    /\ hue \in {NewHue(a, g, l) : a \in BOOLEAN, g \in {{}, {W_living_room}},
                                  l \in {{}, {W_bedroom}}}

HueNext ==
    \E text \in HueUtterances,
       fails \in {"none", "discover", "set_group_action", "set_light_state"} :
        HueExecuteCall(text, fails, <<"Cannot connect to host">>)

SpecHue == HueInit /\ [][HueNext]_vars

\* --------------------------------------------------- claims: the registry

\* the positions of d whose workflow matches text
MatchingPositions(d, text) == {i \in 1..Len(d) : MatchesText(d[i].value, text)}

\* the largest element of a non-empty set of integers
MaxOf(S) == CHOOSE x \in S : \A y \in S : y <= x

\* k1 comes before k2 in the iteration order of d
Before(d, k1, k2) == IndexOf(d, k1) < IndexOf(d, k2)

\* every key other than n keeps its value and its order relative to the others
OthersKept(d, e, n) ==
    /\ \A k \in Classes \ {n} :
           /\ HasKey(e, k) <=> HasKey(d, k)
           /\ DictGet(e, k) = DictGet(d, k)
    /\ \A k1, k2 \in Classes \ {n} :
           (HasKey(d, k1) /\ HasKey(d, k2)) => (Before(e, k1, k2) <=> Before(d, k1, k2))

\* C1: for every registry reached by register/unregister calls and every
\* utterance, find_matching_workflow returns the workflow at the last
\* position of the insertion order whose matches() is true, and None when
\* no registered workflow matches.
C1_LastMatchWins ==
    \A u \in Utterances :
        FindMatchingWorkflow(workflows, u) =
            IF MatchingPositions(workflows, u) = {}
            THEN NoWorkflow
            ELSE workflows[MaxOf(MatchingPositions(workflows, u))].value

\* C1 witness: two registered workflows match the same utterance and the
\* one registered later is returned.
C1_Witness ==
    \E u \in Utterances :
        /\ Cardinality(MatchingPositions(workflows, u)) >= 2
        /\ FindMatchingWorkflow(workflows, u) =
               workflows[MaxOf(MatchingPositions(workflows, u))].value
        /\ FindMatchingWorkflow(workflows, u) #
               workflows[CHOOSE i \in MatchingPositions(workflows, u) :
                   \A j \in MatchingPositions(workflows, u) : i <= j].value

\* C9: register of a new name appends it at the last position; register of
\* a name already present replaces the stored workflow and keeps the name's
\* position; all other entries and their relative order are unchanged.
C9_RegisterPosition ==
    [][last_op'.op = "register" =>
        LET n == last_op'.name
        IN  /\ DictGet(workflows', n) = last_op'.arg
            /\ IF HasKey(workflows, n)
               THEN /\ IndexOf(workflows', n) = IndexOf(workflows, n)
                    /\ Len(workflows') = Len(workflows)
               ELSE /\ IndexOf(workflows', n) = Len(workflows')
                    /\ Len(workflows') = Len(workflows) + 1
            /\ OthersKept(workflows, workflows', n)]_vars

\* C9 witness: a name that was present, and is not the last entry, has
\* been registered again.
C9_Witness ==
    /\ last_op.op = "register"
    /\ last_op.present
    /\ IndexOf(workflows, last_op.name) < Len(workflows)
    /\ DictGet(workflows, last_op.name) = last_op.arg

\* C10: unregister of a present name removes exactly that entry and keeps
\* all others in their order; unregister of an absent name changes nothing;
\* neither raises.
C10_UnregisterFrame ==
    [][last_op'.op = "unregister" =>
        LET n == last_op'.name
        IN  /\ ~last_op'.raised
            /\ IF HasKey(workflows, n)
               THEN /\ ~HasKey(workflows', n)
                    /\ Len(workflows') = Len(workflows) - 1
                    /\ OthersKept(workflows, workflows', n)
               ELSE workflows' = workflows]_vars

\* C10 witness: a present name has been unregistered from a registry that
\* keeps at least two other entries.
C10_Witness ==
    /\ last_op.op = "unregister"
    /\ last_op.present
    /\ ~last_op.raised
    /\ ~HasKey(workflows, last_op.name)
    /\ Len(workflows) >= 2

\* ----------------------------------------------- claims: process_input

\* the history the call left ends with the assistant's message, with this content
LastAssistantIs(text) ==
    /\ call.history # <<>>
    /\ call.history[Len(call.history)] = [role |-> "assistant", content |-> text]

\* C2: when no registered workflow matches the utterance,
\* find_matching_workflow returns None, nothing is executed, the language
\* model is called once with exactly the utterance, and what the model
\* answered is what process_input returns.
C2_NoMatchForwardsUnchanged ==
    (call.entry # "none" /\ MatchingPositions(workflows, call.text) = {}) =>
        /\ FindMatchingWorkflow(workflows, call.text) = NoWorkflow
        /\ call.matched = NoWorkflow
        /\ call.executed = <<>>
        /\ call.llm_inputs = <<call.text>>
        /\ ~call.raised => (call.ret \in Replies /\ LastAssistantIs(call.ret))

\* C2 witness: an utterance no workflow of a non-empty registry matches has
\* been resolved and the model's answer returned.
C2_Witness ==
    /\ call.entry = "run_single_interaction"
    /\ workflows # <<>>
    /\ MatchingPositions(workflows, call.text) = {}
    /\ ~call.raised
    /\ call.ret \in Replies

\* result.error or result.message
ErrorOrMessage(result) ==
    IF result.error # <<>> THEN result.error ELSE result.message

\* C3: when the matched workflow returns FAILURE, the language model is
\* called once, with a prompt that contains the utterance, the workflow's
\* name and result.error (result.message when the error is empty), and
\* process_input returns what the model answered, not the error text.
C3_FailureRephrased ==
    call.result.status = "FAILURE" =>
        /\ Len(call.llm_inputs) = 1
        /\ Contains(call.llm_inputs[1], call.text)
        /\ Contains(call.llm_inputs[1], <<Name(call.matched)>>)
        /\ Contains(call.llm_inputs[1], ErrorOrMessage(call.result))
        /\ ~call.raised =>
              /\ call.ret \in Replies
              /\ LastAssistantIs(call.ret)
              /\ call.ret # ErrorOrMessage(call.result)

\* C3 witness: a workflow failed with an error text and the model's answer
\* to the failure prompt was returned.
C3_Witness ==
    /\ call.result.status = "FAILURE"
    /\ call.result.error # <<>>
    /\ ~call.raised
    /\ call.ret \in Replies

\* C4: when the matched workflow returns SUCCESS, PARTIAL or PENDING,
\* process_input returns result.message as it is and the language model is
\* not called; only FAILURE is handled differently.
C4_MessageVerbatim ==
    call.result.status \in {"SUCCESS", "PARTIAL", "PENDING"} =>
        /\ call.ret = call.result.message
        /\ call.llm_inputs = <<>>
        /\ ~call.raised

\* C4 witness: a workflow returned PENDING and its message was returned.
C4_Witness ==
    /\ call.result.status = "PENDING"
    /\ call.ret = call.result.message
    /\ call.ret # <<>>

\* C5: an exception raised while an utterance is resolved never leaves the
\* entry point that resolves it, and the fixed apology is the outcome.
C5_ExceptionsCaught ==
    call.raised => (~call.propagated /\ call.ret = Apology)

\* C8: when max_history is greater than 0, the history never holds more
\* than max_history turns (a turn counted as a user message and its answer).
C8_HistoryTruncated ==
    max_history > 0 => Len(conversation_history) <= 2 * max_history

\* --------------------------------------------- claims: the activation cycle

\* the cycle IDLE -> LISTENING -> THINKING -> SPEAKING -> IDLE
CycleTransitions ==
    {<<"IDLE", "LISTENING">>, <<"LISTENING", "THINKING">>,
     <<"THINKING", "SPEAKING">>, <<"SPEAKING", "IDLE">>}

\* into ERROR from any state, and from ERROR back to IDLE
ErrorTransitions == {<<s, "ERROR">> : s \in States \ {"ERROR"}} \cup {<<"ERROR", "IDLE">>}

StateTransitions ==
    CycleTransitions
        \cup {<<"LISTENING", "SPEAKING">>}
        \cup {<<"LISTENING", "IDLE">>, <<"THINKING", "IDLE">>}
        \cup {<<"IDLE", "THINKING">>, <<"IDLE", "SPEAKING">>}

C7_OneCycleAtATime == Cardinality(ActiveCycles) <= 1

\* the wake word has been said again while a cycle is in progress
C7_Witness ==
    /\ pending > 0
    /\ ActiveCycles # {}
    /\ det_pc = "callback"

\* ------------------------------------ claims: unregister, then register

\* the calls just made are register(X), unregister(X.name), register(Y),
\* with Y of another name than X
Swapped == last_op.seq = 3

\* the utterances that X (named last_op.x) and Y (last_op.arg) both match
BothMatch == {u \in Utterances : MatchesText(Wf(last_op.x, FALSE), u) /\ MatchesText(last_op.arg, u)}

\* find_matching_workflow returns only what is registered: no workflow
\* under a name that is not a key, and get_workflow of such a name is None
OnlyRegistered ==
    /\ \A u \in Utterances :
           LET f == FindMatchingWorkflow(workflows, u)
           IN  f # NoWorkflow => DictGet(workflows, Name(f)) = f
    /\ \A n \in UnregisterNames : ~HasKey(workflows, n) => DictGet(workflows, n) = NoWorkflow

\* C11 as stated: after register(X), unregister(X.name), register(Y), every
\* utterance that X and Y both match is dispatched to Y, and X is returned
\* neither by find_matching_workflow nor by get_workflow while it is
\* unregistered
C11_SwapDispatchesToY ==
    /\ OnlyRegistered
    /\ Swapped =>
          /\ DictGet(workflows, last_op.x) = NoWorkflow
          /\ \A u \in BothMatch : FindMatchingWorkflow(workflows, u) = last_op.arg

\* C11, amended: after register(X), unregister(X.name), register(Y), an
\* utterance that X and Y both match is dispatched to Y or to a matching
\* workflow that stands after Y in the registry, and to Y whenever Y's name
\* was new (Y is then last); X is returned neither by
\* find_matching_workflow nor by get_workflow while it is unregistered
C11_SwapDispatch ==
    /\ OnlyRegistered
    /\ Swapped =>
          /\ DictGet(workflows, last_op.x) = NoWorkflow
          /\ \A u \in BothMatch :
                LET f == FindMatchingWorkflow(workflows, u)
                IN  /\ Name(f) # last_op.x
                    /\ f = last_op.arg \/ Before(workflows, last_op.name, Name(f))
                    /\ ~last_op.present => f = last_op.arg

\* C11 witness: X was registered and unregistered, Y was registered under
\* a new name after other workflows, an utterance matches both, and Y is
\* the one dispatched
C11_Witness ==
    /\ Swapped
    /\ ~last_op.present
    /\ Len(workflows) >= 2
    /\ \E u \in BothMatch : FindMatchingWorkflow(workflows, u) = last_op.arg

\* ----------------------------------------------- claims: a single execute

\* C12: for every utterance process_input handles, execute is called on
\* the one workflow find_matching_workflow returned and exactly once,
\* whatever it yields (a FAILURE is not retried and no other matching
\* workflow is tried); with no match nothing is executed
C12_ExecuteOnce ==
    call.entry # "none" =>
        /\ Len(call.executed) <= 1
        /\ call.executed = IF call.matched = NoWorkflow THEN <<>> ELSE <<call.matched>>

\* C12 witness: two registered workflows match the utterance, the one
\* dispatched returned FAILURE, and it is the only one executed
C12_Witness ==
    /\ call.entry # "none"
    /\ Cardinality(MatchingPositions(workflows, call.text)) >= 2
    /\ ~call.result.raised
    /\ call.result.status = "FAILURE"
    /\ call.executed = <<call.matched>>

\* ------------------------------------------------------- claims: matches

\* a pattern under re.IGNORECASE, the text being lower case
LowerPattern(pat) ==
    [k \in 1..Len(pat) |-> [t |-> pat[k].t, alts |-> {Lower(a) : a \in pat[k].alts}]]

\* some keyword is a case-insensitive substring of the text, or some
\* pattern matches somewhere in it under a case-insensitive search
MatchesIgnoringCase(w, text) ==
    \/ \E k \in 1..Len(Trigger(w.cls).keywords) :
           Contains(Lower(text), Lower(Trigger(w.cls).keywords[k]))
    \/ \E p \in 1..Len(Trigger(w.cls).patterns) :
           ReSearch(LowerPattern(Trigger(w.cls).patterns[p]), Lower(text))

\* C13: matches(utterance) is true exactly when some trigger keyword is a
\* case-insensitive substring of the utterance or some trigger pattern
\* matches somewhere in it under a case-insensitive search, upper-case
\* letters in keywords and patterns included
C13_MatchesIgnoresCase ==
    (applied.fn = "matches" /\ applied.done) =>
        (applied.matches <=> MatchesIgnoringCase(applied.w, applied.text))

\* ------------------------------------------------- claims: the extractor

\* _extract_entities has returned
Extracted == applied.fn = "extract" /\ applied.done

\* the smallest element of a non-empty set of integers
MinOf(S) == CHOOSE x \in S : \A y \in S : x <= y

\* the actions in the order of their rules
ClaimedActions == <<"on", "off", "dim", "lock", "unlock", "check">>

\* the rules that apply to the lower-cased text s, by their place in that order
RulesApplying(s) ==
    {i \in 1..6 :
        CASE i = 1 -> AnyIn(OnPhrases, s)
          [] i = 2 -> AnyIn(OffPhrases, s)
          [] i = 3 -> Contains(s, W_dim)
          [] i = 4 -> Contains(s, W_lock) /\ ~Contains(s, W_unlock)
          [] i = 5 -> Contains(s, W_unlock)
          [] i = 6 -> Contains(s, W_check) \/ Contains(s, W_who)}

\* the moods one of whose keywords occurs in s, by their place in the dict
MoodsFound(s) == {i \in 1..Len(MoodKeywords) : AnyIn(MoodKeywords[i], s)}

\* C14: when no mood keyword occurs in the utterance, the action is that of
\* the first rule that applies in the order on, off, dim, lock ("lock"
\* without "unlock"), unlock, check ("check" or "who"); when none applies
\* there is no action key
C14_ActionPriority ==
    (Extracted /\ MoodsFound(Lower(applied.text)) = {}) =>
        LET rules == RulesApplying(Lower(applied.text))
        IN  IF rules = {}
            THEN "action" \notin DOMAIN applied.entities
            ELSE /\ "action" \in DOMAIN applied.entities
                 /\ applied.entities["action"] = ClaimedActions[MinOf(rules)]

\* C14 witness: "unlock", which holds "lock", and "check" both occur, no
\* mood keyword does, and the action is unlock
C14_Witness ==
    /\ Extracted
    /\ MoodsFound(Lower(applied.text)) = {}
    /\ RulesApplying(Lower(applied.text)) = {5, 6}
    /\ applied.entities["action"] = "unlock"

\* the moods in their declared order
ClaimedMoods ==
    <<"romantic", "relax", "energize", "party", "bedtime", "focus", "movie", "morning">>

\* C15: the mood is the first one, in the order romantic, relax, energize,
\* party, bedtime, focus, movie, morning, that has a keyword occurring in
\* the lower-cased utterance, and then the action is "mood" whatever the
\* action rules gave; with no such keyword there is no mood key
C15_FirstMoodOverridesAction ==
    Extracted =>
        LET moods == MoodsFound(Lower(applied.text))
        IN  IF moods = {}
            THEN "mood" \notin DOMAIN applied.entities
            ELSE /\ "mood" \in DOMAIN applied.entities
                 /\ applied.entities["mood"] = ClaimedMoods[MinOf(moods)]
                 /\ applied.entities["action"] = "mood"

\* C15 witness: keywords of two moods and the word of an action rule
\* occur; the mood is the earlier one in the order, though it comes later
\* in the utterance, and the action is "mood"
C15_Witness ==
    /\ Extracted
    /\ applied.text = U_LockMovieParty
    /\ MoodsFound(Lower(applied.text)) = {4, 7}
    /\ RulesApplying(Lower(applied.text)) = {4}
    /\ applied.entities["mood"] = "party"
    /\ applied.entities["action"] = "mood"

\* the number keys the extracted dict has
NumberKeysOf(entities) == DOMAIN entities \cap {"brightness", "temperature"}

\* the utterance holds a digit
HasDigit(text) == \E i \in 1..Len(text) : IsDigit(text[i])

\* C16 as stated: the extracted dict has exactly one of the keys brightness
\* and temperature, for every utterance
C16_ExactlyOneNumberKey ==
    Extracted => Cardinality(NumberKeysOf(applied.entities)) = 1

\* C16, amended: the extracted dict has at most one of the keys brightness
\* and temperature: exactly one when the utterance holds a digit, none
\* when it holds no digit
C16_OneNumberKeyIffDigit ==
    Extracted =>
        Cardinality(NumberKeysOf(applied.entities)) =
            IF HasDigit(applied.text) THEN 1 ELSE 0

\* C16 witness: an utterance with two numbers, one on each side of 100,
\* has one number key
C16_Witness ==
    /\ Extracted
    /\ Contains(applied.text, <<"5", "0">>)
    /\ Contains(applied.text, <<"1", "0", "1">>)
    /\ Cardinality(NumberKeysOf(applied.entities)) = 1

\* the value of the first run of digits of text, read from position i on
RECURSIVE ScanNumber(_, _, _, _)
ScanNumber(text, i, inrun, v) ==
    IF i > Len(text) THEN v
    ELSE IF IsDigit(text[i]) THEN ScanNumber(text, i + 1, TRUE, 10 * v + DigitValue(text[i]))
    ELSE IF inrun THEN v
    ELSE ScanNumber(text, i + 1, FALSE, v)

\* C17: when the utterance holds digits, the value of its first run of
\* digits is stored, as brightness when it is at most 100 and as
\* temperature otherwise, and under no other key; so brightness is in
\* 0..100 and temperature above 100, and later numbers change nothing
C17_FirstNumberDecides ==
    (Extracted /\ HasDigit(applied.text)) =>
        LET n == ScanNumber(applied.text, 1, FALSE, 0)
        IN  /\ NumberKeysOf(applied.entities) =
                   IF n <= 100 THEN {"brightness"} ELSE {"temperature"}
            /\ \A k \in NumberKeysOf(applied.entities) : applied.entities[k] = n
            /\ "brightness" \in DOMAIN applied.entities =>
                   applied.entities["brightness"] \in 0..100
            /\ "temperature" \in DOMAIN applied.entities =>
                   applied.entities["temperature"] > 100

\* C17 witness: the first number is 100 and a larger one follows;
\* brightness is 100
C17_Witness ==
    /\ Extracted
    /\ ScanNumber(applied.text, 1, FALSE, 0) = 100
    /\ Contains(applied.text, <<"1", "0", "1">>)
    /\ applied.entities["brightness"] = 100

\* the rooms in their fixed order
ClaimedRooms ==
    <<<<"l","i","v","i","n","g"," ","r","o","o","m">>,
      <<"b","e","d","r","o","o","m">>,
      <<"k","i","t","c","h","e","n">>,
      <<"b","a","t","h","r","o","o","m">>,
      <<"o","f","f","i","c","e">>,
      <<"g","a","r","a","g","e">>,
      <<"b","a","s","e","m","e","n","t">>,
      <<"a","t","t","i","c">>>>

\* the doors in their fixed order
ClaimedDoors ==
    <<<<"f","r","o","n","t">>,
      <<"b","a","c","k">>,
      <<"s","i","d","e">>,
      <<"g","a","r","a","g","e">>>>

\* the entries of list that occur in s, by their place in the list
Found(list, s) == {i \in 1..Len(list) : Contains(s, list[i])}

\* key k of the extracted dict is the first entry of list that occurs in
\* the lower-cased utterance, and is absent when none occurs
IsFirstFound(k, list) ==
    LET found == Found(list, Lower(applied.text))
    IN  IF found = {}
        THEN k \notin DOMAIN applied.entities
        ELSE /\ k \in DOMAIN applied.entities
             /\ applied.entities[k] = list[MinOf(found)]

\* C18: the room is the first entry of living room, bedroom, kitchen,
\* bathroom, office, garage, basement, attic occurring in the lower-cased
\* utterance, the door the first of front, back, side, garage, each
\* whatever the action and the other are; "Lock the front door" gives
\* action lock, door front and no room
C18_FirstRoomAndDoor ==
    Extracted =>
        /\ IsFirstFound("room", ClaimedRooms)
        /\ IsFirstFound("door", ClaimedDoors)
        /\ applied.text = U_LockFront =>
              /\ DOMAIN applied.entities = {"action", "door"}
              /\ applied.entities["action"] = "lock"
              /\ applied.entities["door"] = W_front

\* C18 witness: two rooms occur, the later one in the utterance being the
\* earlier one in the list, and "garage" is also the door
C18_Witness ==
    /\ Extracted
    /\ Found(ClaimedRooms, Lower(applied.text)) = {3, 6}
    /\ Found(ClaimedDoors, Lower(applied.text)) = {4}
    /\ applied.text[1] = "g"
    /\ applied.entities["room"] = ClaimedRooms[3]
    /\ applied.entities["door"] = ClaimedDoors[4]

\* ------------------------------------------- claims: the capabilities text

\* the workflow names a capabilities text holds, in its order
NamesIn(context) ==
    LET at == {i \in 1..Len(context) : context[i] = "\nWorkflow: "}
        RECURSIVE Collect(_)
        Collect(i) ==
            IF i > Len(context) THEN <<>>
            ELSE IF i \in at THEN <<context[i + 1]>> \o Collect(i + 1)
            ELSE Collect(i + 1)
    IN  Collect(1)

\* C19: get_all_context_for_llm returns the fixed placeholder when the
\* registry is empty and otherwise the registered workflows' descriptions,
\* each whole, in registry order; a second call with no register or
\* unregister since the first returns the same text; the call leaves the
\* registry as it was
C19_ContextInRegistryOrder ==
    /\ [](applied.fn = "context" =>
            /\ applied.at = <<>> =>
                  applied.context = <<"No special capabilities are currently configured.">>
            /\ applied.at # <<>> =>
                  /\ NamesIn(applied.context) = Keys(applied.at)
                  /\ \A i \in 1..Len(applied.at) :
                         Contains(applied.context, GetContextForLLM(applied.at[i].value))
            /\ (applied.calls >= 2 /\ applied.prev_at = applied.at) =>
                  applied.context = applied.prev_context)
    /\ [][applied' # applied => workflows' = workflows]_vars

\* C19 witness: the text was asked for twice on the same registry of two
\* workflows or more, and came out the same
C19_Witness ==
    /\ applied.fn = "context"
    /\ applied.calls >= 2
    /\ applied.prev_at = applied.at
    /\ applied.at = workflows
    /\ Len(workflows) >= 2
    /\ applied.context = applied.prev_context

\* ---------------------------------------------- claims: execute failures

\* a text of at least one character
NonEmpty(text) == \E i \in 1..Len(text) : text[i] # ""

\* C20: execute of a workflow of the repository never raises.  When the
\* workflow holds a controller or a client and none was configured, execute
\* returns FAILURE with a non-empty message and a non-empty error and
\* awaits no client method; when a client method raises, execute returns
\* FAILURE whose error is the text of the exception.  (WeatherWorkflow and
\* TimerWorkflow hold neither a controller nor a client.)
C20_ExecuteNeverRaises ==
    (skill.done /\ skill.w # NoWorkflow) =>
        LET o == skill.outcome
            r == o.result
        IN  /\ ~r.raised
            /\ r.status \in Statuses
            /\ (skill.w.cls \in ControllerClasses /\ ~skill.w.configured) =>
                    /\ r.status = "FAILURE"
                    /\ NonEmpty(r.message)
                    /\ NonEmpty(r.error)
                    /\ o.client_calls = <<>>
            /\ o.exc.thrown =>
                    /\ r.status = "FAILURE"
                    /\ r.error = o.exc.text

\* the Hue bridge was reached by the discovery, and the request that sets
\* the living room's group raised: execute returned FAILURE with the
\* exception's text
C20_Witness ==
    /\ skill.done
    /\ skill.w = Wf("hue_lights", TRUE)
    /\ skill.text = U_TurnOnLiving
    /\ skill.outcome.client_calls = <<"discover", "set_group_action">>
    /\ skill.outcome.exc = Thrown(<<"Cannot connect to host">>)
    /\ skill.outcome.result =
           Result("FAILURE",
                  <<"I encountered difficulty with the lights, sir. The error was: ",
                    "Cannot connect to host">>,
                  <<"Cannot connect to host">>)

\* ------------------------------------------------ claims: unknown targets

\* the client methods that send a command to the device backend
CommandMethods == {"call_service", "set_group_action", "set_light_state"}

\* the room, light or door the call names is not one the skill knows
UnknownTarget ==
    CASE skill.w.cls = "hue_lights" ->
            LET room == Lower(Get(skill.entities, "room", W_all))
            IN  room # W_all /\ room \notin skill.client.groups \cup skill.client.lights
      [] skill.w.cls = "hass_lights" ->
            Lower(Get(skill.entities, "room", W_living_room)) \notin HassRoomMapping
      [] skill.w.cls = "hass_locks" ->
            Lower(Get(skill.entities, "door", W_front)) \notin HassLockMapping
      [] OTHER -> FALSE

\* the message is one of the "could not find" messages
CouldNotFind(message) ==
    \E i \in 1..Len(message) :
        message[i] \in {"I could not find a light or room called '",
                        "I could not find the bridge home group for all lights, sir."}

LightsNames == {"hue_lights", "hass_lights"}

\* the positions of the registry holding a workflow of an integration
IntegrationPositions(d) == {i \in 1..Len(d) : d[i].key \in ClientClasses}

\* C22: under every setting of HUE_BRIDGE_IP and HASS_TOKEN the registry
\* create_workflow_manager returns holds at most one lights skill
\* (hass_lights, not hue_lights, when both are set), begins with doorbell,
\* thermostat, weather, timer in that order, and holds only integration
\* skills after them -- so that an utterance an integration skill matches
\* is dispatched to an integration skill.
C22_ManagerLayout ==
    build.built =>
        /\ Cardinality({i \in 1..Len(workflows) : workflows[i].key \in LightsNames}) <= 1
        /\ (build.hue_ip /\ build.hass_token) =>
                HasKey(workflows, "hass_lights") /\ ~HasKey(workflows, "hue_lights")
        /\ (build.hue_ip /\ ~build.hass_token) => HasKey(workflows, "hue_lights")
        /\ Len(workflows) >= 4
        /\ SubSeq(Keys(workflows), 1, 4) = <<"doorbell", "thermostat", "weather", "timer">>
        /\ IntegrationPositions(workflows) = 5..Len(workflows)
        /\ \A i \in 1..Len(workflows) : workflows[i].key = Name(workflows[i].value)
        /\ (applied.fn = "find" /\
            \E i \in IntegrationPositions(workflows) :
                MatchesText(workflows[i].value, applied.text)) =>
                Name(applied.w) \in ClientClasses

\* both variables are set, and "Lock the front door", which the doorbell
\* template matches too, went to the Home Assistant lock skill
C22_Witness ==
    /\ build.built
    /\ build.hue_ip
    /\ build.hass_token
    /\ Keys(workflows) = <<"doorbell", "thermostat", "weather", "timer",
                           "hass_lights", "hass_locks", "hass_climate">>
    /\ applied.fn = "find"
    /\ applied.text = U_LockFront
    /\ MatchesText(Wf("doorbell", FALSE), U_LockFront)
    /\ applied.w = Wf("hass_locks", TRUE)

\* ------------------------------------------------- claims: Hue discovery

\* the methods an execute call awaited
Awaits(outcome) == {outcome.client_calls[i] : i \in 1..Len(outcome.client_calls)}

\* C23: the Hue workflow awaits discover() before its first light command;
\* once a discovery has succeeded no later execute awaits it again; and
\* when the discovery raises, execute returns FAILURE without a light
\* command and leaves the client undiscovered, so that the next execute
\* awaits discover() again.
C23_DiscoveryOnceBeforeCommands ==
    hue.executes > 0 =>
        LET o == hue.outcome
        IN  /\ hue.before => /\ hue.discovered
                             /\ "discover" \notin Awaits(o)
            /\ ~hue.before => /\ o.client_calls # <<>>
                              /\ o.client_calls[1] = "discover"
            /\ (Awaits(o) \cap CommandMethods # {}) => hue.discovered
            /\ (~hue.before /\ o.exc.thrown /\ o.client_calls = <<"discover">>) =>
                    /\ o.result.status = "FAILURE"
                    /\ o.result.error = o.exc.text
                    /\ ~hue.discovered
            /\ (~hue.before /\ ~(o.exc.thrown /\ o.client_calls = <<"discover">>)) =>
                    hue.discovered
            /\ Len(o.client_calls) <= 2

\* an execute whose discovery raised was followed by one that discovered
C23_Witness ==
    /\ hue.executes = 2
    /\ ~hue.before
    /\ hue.discovered
    /\ hue.outcome.client_calls = <<"discover", "set_group_action">>
    /\ hue.outcome.result.status = "SUCCESS"

\* ------------------------------------------- claims: the history's roles

\* C24: after any generate_response and clear_history calls, failed
\* requests included, the conversation history alternates user,
\* assistant, user, assistant, ... from a user entry on.
C24_HistoryAlternates ==
    \A i \in 1..Len(conversation_history) :
        conversation_history[i].role = IF i % 2 = 1 THEN "user" ELSE "assistant"

\* C25: every activation cycle ends, and ends with the assistant IDLE:
\* whatever listen, transcription, process_input and synthesis do, a cycle
\* that has begun reaches the return of handle_activation, and the step that
\* returns leaves state IDLE
C25_CycleEndsIdle ==
    /\ [][\A c \in 1..MaxWakes :
              (cycles[c].pc # "done" /\ cycles'[c].pc = "done") => state' = "IDLE"]_vars
    /\ \A c \in 1..MaxWakes :
          (cycles[c].pc \notin {"idle", "done"}) ~> (cycles[c].pc = "done")

\* a cycle in which process_input raised has returned, the assistant IDLE
C25_Witness ==
    /\ \E c \in 1..MaxWakes : cycles[c].pc = "done"
    /\ ActiveCycles = {}
    /\ call.entry = "handle_activation"
    /\ call.raised
    /\ state = "IDLE"

\* C26: once stop() has returned the assistant is quiet: no activation
\* cycle is running and the state is IDLE, and from then on the wake
\* callback is not invoked and the conversation history is not modified
C26_QuietAfterStop ==
    /\ [](main_pc = "stopped" => (ActiveCycles = {} /\ state = "IDLE"))
    /\ [][main_pc = "stopped" =>
              (started' = started /\ conversation_history' = conversation_history)]_vars

\* the names create_default_workflow_manager registers
DefaultNames == {"doorbell", "thermostat", "weather", "timer"}

\* C27: in the registry of create_default_workflow_manager every example
\* phrase of a registered workflow's trigger is dispatched by
\* find_matching_workflow to that workflow
C27_ExamplesDispatchedHome ==
    (applied.fn = "find" /\ applied.done /\ workflows = DefaultManager) =>
        \A cls \in DefaultNames :
            \A i \in 1..Len(ExamplePhrases(cls)) :
                applied.text = ExamplePhrases(cls)[i] => applied.w = Wf(cls, FALSE)

\* C28: naming a room never triggers mood detection: "<p> the <r> lights"
\* yields the action of p, the room r and no mood, and "Dim the bedroom
\* lights to 50%" yields action dim, room bedroom, brightness 50
C28_RoomIsNotAMood ==
    Extracted =>
        /\ \A c \in CommandPhrases :
              \A j \in 1..Len(Rooms) :
                  applied.text = RoomCommand(c[1], Rooms[j]) =>
                      /\ "mood" \notin DOMAIN applied.entities
                      /\ Get(applied.entities, "action", "") = c[2]
                      /\ Get(applied.entities, "room", <<>>) = Rooms[j]
        /\ applied.text = U_DimBedroom =>
              applied.entities =
                  [k \in {"action", "room", "brightness"} |->
                      CASE k = "action" -> "dim"
                        [] k = "room" -> Rooms[2]
                        [] k = "brightness" -> 50]

\* C29: when hass_climate, with a client, handles "Set the temperature to
\* N", the extractor and the skill together issue the set_temperature
\* service call with N, and say so when it succeeds
C29_SetTemperatureIssued ==
    \A n \in Temperatures :
        (/\ skill.done
         /\ skill.w = Wf("hass_climate", TRUE)
         /\ skill.text = SetTemperatureTo(n)) =>
            /\ skill.outcome.client_calls = <<"call_service">>
            /\ skill.client.fails = "none" =>
                  skill.outcome.result.message =
                      <<"I've set the temperature to ">> \o IntToChars(n)
                          \o <<" degrees, sir. Comfort is en route.">>

\* the statuses process_input answers with the workflow's own message
AnsweredStatuses == {"SUCCESS", "PARTIAL", "PENDING"}

\* C30: each process_input call invokes the language model at most once:
\* exactly once when no workflow matches or the matched one returns FAILURE
\* (the history then grows by that one user entry and the answer, if any),
\* and not at all when it returns SUCCESS, PARTIAL or PENDING, the
\* conversation history and the registry then being left as they were
C30_LLMAtMostOnce ==
    [][interactions' = interactions + 1 =>
          /\ Len(call'.llm_inputs) <= 1
          /\ (call'.matched = NoWorkflow
                  \/ (~call'.result.raised /\ call'.result.status = "FAILURE")) =>
                /\ Len(call'.llm_inputs) = 1
                /\ Len(conversation_history') \in
                       {Len(conversation_history) + 1, Len(conversation_history) + 2}
                /\ conversation_history'[Len(conversation_history) + 1] =
                       [role |-> "user", content |-> call'.llm_inputs[1]]
                /\ SubSeq(conversation_history', 1, Len(conversation_history)) =
                       conversation_history
          /\ (call'.matched # NoWorkflow /\ ~call'.result.raised
                  /\ call'.result.status \in AnsweredStatuses) =>
                /\ call'.llm_inputs = <<>>
                /\ conversation_history' = conversation_history
                /\ workflows' = workflows]_vars

\* after the language model has answered an utterance, a workflow answers
\* the next one with PARTIAL, the history left as the first call left it
C30_Witness ==
    /\ call.entry = "run_single_interaction"
    /\ call.result.status = "PARTIAL"
    /\ call.llm_inputs = <<>>
    /\ Len(conversation_history) = 2
    /\ interactions = 2

====
